---- MODULE Spec2Model ----
(***************************************************************************)
(* Model of the school management API of backend/server.py: the document   *)
(* store (schools, users, students, classes, attendance, gradebook,        *)
(* social_skills), JWT sessions, the role / permission guards and the      *)
(* request handlers.                                                       *)
(*                                                                         *)
(* Conventions                                                             *)
(*   - a collection is a sequence of documents in insertion order (the     *)
(*     natural order find / find_one read in);                             *)
(*   - an optional value (find_one result, resolved user, issued token) is *)
(*     a sequence of length 0 or 1;                                        *)
(*   - uuid4() is a fresh number taken from nextId; 0 is a null reference; *)
(*   - a float score is an integer number of hundredths, a null score is   *)
(*     NoneNum; grade points are tenths;                                   *)
(*   - datetime.now() is the variable clock, in hours.                     *)
(***************************************************************************)
EXTENDS Integers, Sequences, FiniteSets, TLC

(* ------------------------------ bounds -------------------------------- *)
MaxId == 9
MaxClock == 16
MaxAuthClock == 32
MaxTokens == 3
MaxBulk == 2
\* the highest score, in marks, the banding is applied to
MaxScore == 100
MaxLines == 3

VARIABLES
    schools,        \* db.schools
    users,          \* db.users
    students,       \* db.students
    classes,        \* db.classes
    attendance,     \* db.attendance
    gradebook,      \* db.gradebook
    social_skills,  \* db.social_skills
    report_templates, \* db.report_templates
    tokens,         \* access tokens issued by login so far
    clock,          \* datetime.now(timezone.utc), hours
    nextId,         \* source of uuid4() values
    inflight,       \* requests suspended at an await, per connection
    resp            \* the last request served and its response

vars == <<schools, users, students, classes, attendance, gradebook,
          social_skills, report_templates, tokens, clock, nextId, inflight, resp>>

stores == <<schools, users, students, classes, attendance, gradebook,
            social_skills, report_templates>>

(* --------------------------- program constants ------------------------ *)
JWT_EXPIRATION_HOURS == 24

NoneNum == 0 - 1
NoneId == 0

SUPERUSER == "superuser"
ADMIN == "admin"
TEACHER == "teacher"
PARENT == "parent"

ALL_PERMISSIONS ==
    {"manage_schools", "manage_users", "manage_students", "manage_classes",
     "manage_attendance", "manage_grades", "view_reports", "generate_reports"}

GRADING_SCHEME ==
    << [min |-> 90, max |-> 100, grade |-> "A+", domain |-> "Expert performance", points |-> 40],
       [min |-> 85, max |-> 89, grade |-> "A", domain |-> "Highly Proficient performance", points |-> 38],
       [min |-> 80, max |-> 84, grade |-> "A-", domain |-> "Proficient performance", points |-> 37],
       [min |-> 75, max |-> 79, grade |-> "B", domain |-> "Satisfactory performance", points |-> 35],
       [min |-> 70, max |-> 74, grade |-> "B-", domain |-> "Developing performance", points |-> 33],
       [min |-> 65, max |-> 69, grade |-> "C", domain |-> "Passing performance", points |-> 32],
       [min |-> 60, max |-> 64, grade |-> "C-", domain |-> "Passing performance", points |-> 28],
       [min |-> 55, max |-> 59, grade |-> "D", domain |-> "Marginal performance", points |-> 26],
       [min |-> 50, max |-> 54, grade |-> "D-", domain |-> "Below Average performance", points |-> 24],
       [min |-> 40, max |-> 49, grade |-> "E", domain |-> "Frustration", points |-> 10],
       [min |-> 0, max |-> 39, grade |-> "U", domain |-> "No participation", points |-> 0] >>

MHPS_WEIGHTS ==
    [homework |-> 5, groupWork |-> 5, project |-> 10, quiz |-> 10,
     midTerm |-> 30, endOfTerm |-> 40]

MHPS_GRADE_SCALE ==
    << [min |-> 95, max |-> 100, grade |-> "A+", description |-> "Excellent"],
       [min |-> 90, max |-> 94, grade |-> "A", description |-> "Very Good"],
       [min |-> 80, max |-> 89, grade |-> "B+", description |-> "Good"],
       [min |-> 70, max |-> 79, grade |-> "B", description |-> "Satisfactory"],
       [min |-> 60, max |-> 69, grade |-> "C+", description |-> "Satisfactory"],
       [min |-> 50, max |-> 59, grade |-> "C", description |-> "Needs Improvement"],
       [min |-> 40, max |-> 49, grade |-> "D", description |-> "Unsatisfactory"],
       [min |-> 0, max |-> 39, grade |-> "E", description |-> "Poor"] >>

DEFAULT_GRADE_SCALE ==
    << [min |-> 90, max |-> 100, grade |-> "A+", description |-> "Excellent"],
       [min |-> 85, max |-> 89, grade |-> "A", description |-> "Very Good"],
       [min |-> 80, max |-> 84, grade |-> "A-", description |-> "Good"],
       [min |-> 75, max |-> 79, grade |-> "B", description |-> "Satisfactory"],
       [min |-> 70, max |-> 74, grade |-> "B-", description |-> "Developing"],
       [min |-> 65, max |-> 69, grade |-> "C", description |-> "Passing"],
       [min |-> 60, max |-> 64, grade |-> "C-", description |-> "Passing"],
       [min |-> 55, max |-> 59, grade |-> "D", description |-> "Marginal"],
       [min |-> 50, max |-> 54, grade |-> "D-", description |-> "Below Average"],
       [min |-> 40, max |-> 49, grade |-> "E", description |-> "Frustration"],
       [min |-> 0, max |-> 39, grade |-> "U", description |-> "No participation"] >>

(* ------------------------- the document store ------------------------- *)
\* a query is a flat filter map, written as a record: a document matches when
\* it has every field of the query with the value the query gives
matches(doc, query) ==
    \A f \in DOMAIN query : f \in DOMAIN doc /\ doc[f] = query[f]

\* collection.find(query).to_list(): the matching documents, in order
find(coll, query) == SelectSeq(coll, LAMBDA d : matches(d, query))

\* collection.find_one(query): the first matching document, if any
find_one(coll, query) ==
    IF \E i \in DOMAIN coll : matches(coll[i], query)
    THEN << coll[CHOOSE i \in DOMAIN coll :
                    /\ matches(coll[i], query)
                    /\ \A j \in 1..(i - 1) : ~matches(coll[j], query)] >>
    ELSE << >>

\* index of the document find_one would return (0 when there is none)
first_index(coll, query) ==
    IF \E i \in DOMAIN coll : matches(coll[i], query)
    THEN CHOOSE i \in DOMAIN coll :
             /\ matches(coll[i], query)
             /\ \A j \in 1..(i - 1) : ~matches(coll[j], query)
    ELSE 0

\* doc.get(name, default)
get_field(doc, name, default) == IF name \in DOMAIN doc THEN doc[name] ELSE default

\* collection.insert_one(doc)
insert_one(coll, doc) == Append(coll, doc)

\* {"$set": upd} applied to a document
set_fields(doc, upd) ==
    [f \in DOMAIN doc \cup DOMAIN upd |-> IF f \in DOMAIN upd THEN upd[f] ELSE doc[f]]

\* collection.update_one(query, {"$set": upd}): the first match updated
update_one(coll, query, upd) ==
    LET k == first_index(coll, query)
    IN  [i \in DOMAIN coll |-> IF i = k THEN set_fields(coll[i], upd) ELSE coll[i]]

\* collection.delete_one(query): the first match removed
delete_one(coll, query) ==
    LET k == first_index(coll, query)
    IN  IF k = 0 THEN coll
        ELSE [i \in 1..(Len(coll) - 1) |-> IF i < k THEN coll[i] ELSE coll[i + 1]]

\* the documents of a collection, as a set
Docs(coll) == {coll[i] : i \in DOMAIN coll}

(* ------------------------------ grading ------------------------------- *)
\* a conversion to an integer that drops the fraction
round_down(num, den) == num \div den

\* Python round(x) of the non-negative float num/den: nearest integer,
\* a tie going to the even neighbour
round(num, den) ==
    LET q == num \div den
        r == num % den
    IN  IF 2 * r < den THEN q
        ELSE IF 2 * r > den THEN q + 1
        ELSE IF q % 2 = 0 THEN q ELSE q + 1

\* get_grade_info(score), score = num/den marks
get_grade_info(num, den) ==
    LET rounded == round(num, den)
        hit == SelectSeq(GRADING_SCHEME,
                         LAMBDA s : s.min <= rounded /\ rounded <= s.max)
    IN  IF Len(hit) > 0
        THEN [grade |-> hit[1].grade, domain |-> hit[1].domain, points |-> hit[1].points]
        ELSE [grade |-> "U", domain |-> "No participation", points |-> 0]

\* get_mhps_grade(score), score in hundredths
get_mhps_grade(score) ==
    IF score = NoneNum THEN [grade |-> "-", description |-> "-"]
    ELSE LET rounded == round(score, 100)
             hit == SelectSeq(MHPS_GRADE_SCALE,
                              LAMBDA g : g.min <= rounded /\ rounded <= g.max)
         IN  IF Len(hit) > 0
             THEN [grade |-> hit[1].grade, description |-> hit[1].description]
             ELSE [grade |-> "E", description |-> "Poor"]

\* "x or 0" on an optional number
or0(x) == IF x = NoneNum THEN 0 ELSE x

\* calculate_mhps_weighted_score(subj): components and result in hundredths,
\* the weights in percent; round(weighted, 2)
calculate_mhps_weighted_score(subj) ==
    round(or0(subj.homework) * MHPS_WEIGHTS.homework
          + or0(subj.groupWork) * MHPS_WEIGHTS.groupWork
          + or0(subj.project) * MHPS_WEIGHTS.project
          + or0(subj.quiz) * MHPS_WEIGHTS.quiz
          + or0(subj.midTerm) * MHPS_WEIGHTS.midTerm
          + or0(subj.endOfTerm) * MHPS_WEIGHTS.endOfTerm, 100)

(* ------------------------------ sessions ------------------------------ *)
\* str.upper() on the school codes that occur
upper(code) ==
    CASE code = "jtech" -> "JTECH"
      [] code = "wps" -> "WPS"
      [] code \in {"nps", "Nps"} -> "NPS"
      [] OTHER -> code

\* hash_password(password): a bcrypt digest of the password
hash_password(password) == [alg |-> "bcrypt", of |-> password]

\* verify_password(plain_password, hashed_password)
verify_password(plain_password, hashed_password) ==
    hashed_password.alg = "bcrypt" /\ hashed_password.of = plain_password

\* create_access_token(data): the claims, an expiry, a signature under JWT_SECRET
create_access_token(sub, role, school_code) ==
    [sub |-> sub, role |-> role, school_code |-> school_code,
     exp |-> clock + JWT_EXPIRATION_HOURS, sig |-> "valid"]

\* an outcome of a dependency (get_current_user, require_*): the resolved
\* principal, or the HTTPException raised
Granted(user) == [status |-> 200, detail |-> "", user |-> << user >>]
Raised(status, detail, who) == [status |-> status, detail |-> detail, user |-> who]

\* a get_current_user that gives one reason for every failure
get_current_user_one_reason(token) ==
    IF token.sig # "valid" \/ token.exp <= clock \/ token.sub = NoneId
    THEN Raised(401, "Invalid token", << >>)
    ELSE LET user == find_one(users, [id |-> token.sub])
         IN  IF Len(user) = 0 THEN Raised(401, "Invalid token", << >>)
             ELSE IF token.school_code # ""
                  THEN Granted([user[1] EXCEPT !.school_code = token.school_code])
                  ELSE Granted(user[1])

\* get_current_user(credentials): jwt.decode verifies the signature, then the
\* expiry; the stored user is looked up by id and the principal is that user
\* with the token's school_code put over the stored one
get_current_user(token) ==
    IF token.sig # "valid" THEN Raised(401, "Invalid token", << >>)
    ELSE IF token.exp <= clock THEN Raised(401, "Token expired", << >>)
    ELSE IF token.sub = NoneId THEN Raised(401, "Invalid token", << >>)
    ELSE LET user == find_one(users, [id |-> token.sub])
         IN  IF Len(user) = 0 THEN Raised(401, "User not found", << >>)
             ELSE IF token.school_code # ""
                  THEN Granted([user[1] EXCEPT !.school_code = token.school_code])
                  ELSE Granted(user[1])

\* a require_roles that goes by the role claim of the token
require_roles_by_claim(allowed_roles, token) ==
    LET auth == get_current_user(token)
    IN  IF auth.status # 200 THEN auth
        ELSE IF token.role = SUPERUSER THEN auth
        ELSE IF token.role \notin allowed_roles
             THEN Raised(403, "Insufficient permissions", auth.user)
             ELSE auth

\* require_roles(allowed_roles)
require_roles(allowed_roles, token) ==
    LET auth == get_current_user(token)
    IN  IF auth.status # 200 THEN auth
        ELSE IF auth.user[1].role = SUPERUSER THEN auth
        ELSE IF auth.user[1].role \notin allowed_roles
             THEN Raised(403, "Insufficient permissions", auth.user)
             ELSE auth

\* f"Permission denied: {permission}"
permission_denied(permission) ==
    CASE permission = "manage_schools" -> "Permission denied: manage_schools"
      [] permission = "manage_users" -> "Permission denied: manage_users"
      [] permission = "manage_students" -> "Permission denied: manage_students"
      [] permission = "manage_classes" -> "Permission denied: manage_classes"
      [] permission = "manage_attendance" -> "Permission denied: manage_attendance"
      [] permission = "manage_grades" -> "Permission denied: manage_grades"
      [] permission = "view_reports" -> "Permission denied: view_reports"
      [] permission = "generate_reports" -> "Permission denied: generate_reports"

\* a require_permission that goes by the role: administrators pass
require_permission_by_role(permission, token) ==
    LET auth == get_current_user(token)
    IN  IF auth.status # 200 THEN auth
        ELSE IF auth.user[1].role \in {SUPERUSER, ADMIN} THEN auth
        ELSE IF permission \notin auth.user[1].permissions
             THEN Raised(403, permission_denied(permission), auth.user)
             ELSE auth

\* require_permission(permission)
require_permission(permission, token) ==
    LET auth == get_current_user(token)
    IN  IF auth.status # 200 THEN auth
        ELSE IF auth.user[1].role = SUPERUSER THEN auth
        ELSE IF permission \notin auth.user[1].permissions
             THEN Raised(403, permission_denied(permission), auth.user)
             ELSE auth

\* require_superuser()
require_superuser(token) ==
    LET auth == get_current_user(token)
    IN  IF auth.status # 200 THEN auth
        ELSE IF auth.user[1].role # SUPERUSER
             THEN Raised(403, "Superuser access required", auth.user)
             ELSE auth

(* ---------------------------- connections ----------------------------- *)
\* the connections on which requests are served concurrently
Connections == {"c1", "c2"}

\* a connection with no request in progress
Idle == [pc |-> "idle", op |-> "", user |-> << >>, req |-> << >>,
         doc |-> << >>, existing |-> << >>]

(* ----------------------------- responses ------------------------------ *)
\* what the client of the last request saw: the operation, the status and
\* detail, the documents returned, together with the principal the request
\* resolved to and the request itself
Response(op, status, detail, body, who, req) ==
    [op |-> op, status |-> status, detail |-> detail, body |-> body,
     user |-> who, req |-> req]

\* a request that a dependency turned down: nothing but the response changes
Reject(op, auth, req) ==
    /\ resp' = Response(op, auth.status, auth.detail, << >>, auth.user, req)
    /\ UNCHANGED <<stores, tokens, clock, nextId, inflight>>

\* time passes between requests: two thirds of a token's life at a time
Tick(limit) ==
    /\ clock + (2 * JWT_EXPIRATION_HOURS) \div 3 <= limit
    /\ clock' = clock + (2 * JWT_EXPIRATION_HOURS) \div 3
    /\ UNCHANGED <<stores, tokens, nextId, inflight, resp>>

\* a refusal: the HTTPException a handler raises
refusal(status, detail) == << [status |-> status, detail |-> detail] >>

(* ------------------------------- login -------------------------------- *)
\* UserResponse(**user): the account without its password hash
user_response(user) == [f \in DOMAIN user \ {"password_hash"} |-> user[f]]

\* a school lookup that accepts a deactivated school
any_school(school_code) == find_one(schools, [school_code |-> school_code])

\* school = db.schools.find_one({"school_code": school_code, "is_active": True})
active_school(school_code) ==
    find_one(schools, [school_code |-> school_code, is_active |-> TRUE])

\* what login answers: the status and detail, and on success the token and
\* the user it returns
login_result(status, detail, body) ==
    [status |-> status, detail |-> detail, body |-> body]

\* the body of login: the account of the requested school when one has the
\* username, otherwise a superuser of that username whose password verifies
login_outcome(credentials) ==
    LET school_code == upper(credentials.school_code)
        user == find_one(users, [username |-> credentials.username,
                                 school_code |-> school_code])
        superuser == find_one(users, [username |-> credentials.username,
                                      role |-> SUPERUSER])
    IN  IF Len(active_school(school_code)) = 0
        THEN login_result(401, "Invalid school code", << >>)
        ELSE IF /\ Len(user) = 0
                /\ Len(superuser) > 0
                /\ verify_password(credentials.password, superuser[1].password_hash)
        THEN login_result(200, "",
                 << [access_token |-> create_access_token(superuser[1].id,
                                                          superuser[1].role,
                                                          school_code),
                     user |-> user_response([superuser[1] EXCEPT
                                                 !.school_code = school_code])] >>)
        ELSE IF \/ Len(user) = 0
                \/ ~verify_password(credentials.password, user[1].password_hash)
        THEN login_result(401, "Invalid credentials", << >>)
        ELSE login_result(200, "",
                 << [access_token |-> create_access_token(user[1].id, user[1].role,
                                                          school_code),
                     user |-> user_response(user[1])] >>)

\* the tokens the clients hold once a login has answered (they keep at most
\* MaxTokens of them)
tokens_after(outcome) ==
    IF /\ outcome.status = 200
       /\ Cardinality(tokens \cup {outcome.body[1].access_token}) <= MaxTokens
    THEN tokens \cup {outcome.body[1].access_token}
    ELSE tokens

\* a login that stores the session's school on the account
login_remembering_school(credentials) ==
    \E outcome \in {login_outcome(credentials)} :
        /\ resp' = Response("login", outcome.status, outcome.detail, outcome.body,
                            << >>, credentials)
        /\ tokens' = tokens_after(outcome)
        /\ users' = IF outcome.status = 200
                    THEN update_one(users, [id |-> outcome.body[1].user.id],
                                    [school_code |-> upper(credentials.school_code)])
                    ELSE users
        /\ UNCHANGED <<schools, students, classes, attendance, gradebook,
                       social_skills, report_templates, clock, nextId, inflight>>

\* POST /auth/login
login(credentials) ==
    \E outcome \in {login_outcome(credentials)} :
        /\ resp' = Response("login", outcome.status, outcome.detail, outcome.body,
                            << >>, credentials)
        /\ tokens' = tokens_after(outcome)
        /\ UNCHANGED <<stores, clock, nextId, inflight>>

\* GET /auth/me: the request is its bearer token
get_me(token) ==
    LET auth == get_current_user(token)
    IN  IF auth.status # 200 THEN Reject("get_me", auth, token)
        ELSE /\ resp' = Response("get_me", 200, "", << user_response(auth.user[1]) >>,
                                 auth.user, token)
             /\ UNCHANGED <<stores, tokens, clock, nextId, inflight>>

(* ------------------------------- schools ------------------------------ *)
\* build_default_template(school_code, school_name): of the template, the
\* fields the handlers read
build_default_template(school_code) ==
    [school_code |-> school_code, grade_scale |-> DEFAULT_GRADE_SCALE,
     use_weighted_grading |-> FALSE]

\* PUT /schools/{school_id}: the school keeps its code
update_school(token, school_id, school) ==
    LET auth == require_superuser(token)
        req == [id |-> school_id, data |-> school]
    IN  IF auth.status # 200 THEN Reject("update_school", auth, req)
        ELSE \E existing \in {find_one(schools, [id |-> school_id])} :
                 IF Len(existing) = 0
                 THEN /\ resp' = Response("update_school", 404, "School not found",
                                          << >>, auth.user, req)
                      /\ UNCHANGED <<stores, tokens, clock, nextId, inflight>>
                 ELSE /\ schools' = update_one(schools, [id |-> school_id],
                                      set_fields(school,
                                          [school_code |-> existing[1].school_code]))
                      /\ resp' = Response("update_school", 200, "",
                                          find_one(schools', [id |-> school_id]),
                                          auth.user, req)
                      /\ UNCHANGED <<users, students, classes, attendance, gradebook,
                                     social_skills, report_templates, tokens, clock,
                                     nextId, inflight>>

\* a look for the code exactly as the body spells it
existing_school_as_spelled(school_code) ==
    find_one(schools, [school_code |-> school_code])

\* existing = find_one({school_code: school.school_code.upper()})
existing_school(school_code) ==
    find_one(schools, [school_code |-> upper(school_code)])

\* POST /schools: the school, and the default report template of its code
create_school(token, school) ==
    LET auth == require_superuser(token)
    IN  IF auth.status # 200 THEN Reject("create_school", auth, school)
        ELSE IF Len(existing_school(school.school_code)) > 0
        THEN /\ resp' = Response("create_school", 400, "School code already exists",
                                 << >>, auth.user, school)
             /\ UNCHANGED <<stores, tokens, clock, nextId, inflight>>
        ELSE \E doc \in {set_fields([id |-> nextId] @@ school,
                                    [school_code |-> upper(school.school_code)])} :
                 /\ nextId <= MaxId
                 /\ schools' = insert_one(schools, doc)
                 /\ report_templates' =
                        insert_one(report_templates,
                                   build_default_template(upper(school.school_code)))
                 /\ nextId' = nextId + 1
                 /\ resp' = Response("create_school", 200, "", << doc >>, auth.user,
                                     school)
                 /\ UNCHANGED <<users, students, classes, attendance, gradebook,
                                social_skills, tokens, clock, inflight>>

\* a check that refuses only a school that is not there
delete_school_refusal_missing(school) ==
    IF Len(school) = 0 THEN refusal(404, "School not found") ELSE << >>

\* the checks of delete_school on the school it found
delete_school_refusal(school) ==
    IF Len(school) = 0 THEN refusal(404, "School not found")
    ELSE IF school[1].school_code = "JTECH"
    THEN refusal(400, "Cannot delete system school")
    ELSE << >>

\* DELETE /schools/{school_id}
delete_school(token, school_id) ==
    LET auth == require_superuser(token)
        req == [id |-> school_id]
    IN  IF auth.status # 200 THEN Reject("delete_school", auth, req)
        ELSE \E refused \in {delete_school_refusal(
                                 find_one(schools, [id |-> school_id]))} :
                 IF Len(refused) > 0
                 THEN /\ resp' = Response("delete_school", refused[1].status,
                                          refused[1].detail, << >>, auth.user, req)
                      /\ UNCHANGED <<stores, tokens, clock, nextId, inflight>>
                 ELSE /\ schools' = delete_one(schools, [id |-> school_id])
                      /\ resp' = Response("delete_school", 200,
                                          "School deleted successfully", << >>,
                                          auth.user, req)
                      /\ UNCHANGED <<users, students, classes, attendance, gradebook,
                                     social_skills, report_templates, tokens, clock,
                                     nextId, inflight>>

(* ----------------------------- gradebook ------------------------------ *)
\* a mode switch that asks for all six components
has_every_mhps_component(subj) ==
    /\ subj.homework # NoneNum
    /\ subj.groupWork # NoneNum
    /\ subj.project # NoneNum
    /\ subj.quiz # NoneNum
    /\ subj.midTerm # NoneNum
    /\ subj.endOfTerm # NoneNum

\* has_mhps_components in save_gradebook
has_mhps_components(subj) ==
    \/ subj.homework # NoneNum
    \/ subj.groupWork # NoneNum
    \/ subj.project # NoneNum
    \/ subj.quiz # NoneNum
    \/ subj.midTerm # NoneNum
    \/ subj.endOfTerm # NoneNum

\* one element of subjects_with_grades
subject_with_grade(subj) ==
    IF has_mhps_components(subj)
    THEN LET weighted_score == calculate_mhps_weighted_score(subj)
         IN  [subject |-> subj.subject, score |-> weighted_score,
              grade |-> get_mhps_grade(weighted_score).grade,
              points |-> NoneNum, domain |-> "",
              homework |-> subj.homework, groupWork |-> subj.groupWork,
              project |-> subj.project, quiz |-> subj.quiz,
              midTerm |-> subj.midTerm, endOfTerm |-> subj.endOfTerm]
    ELSE LET score == or0(subj.score)
             grade_info == get_grade_info(score, 100)
         IN  [subject |-> subj.subject, score |-> score,
              grade |-> grade_info.grade,
              points |-> grade_info.points, domain |-> grade_info.domain,
              homework |-> NoneNum, groupWork |-> NoneNum,
              project |-> NoneNum, quiz |-> NoneNum,
              midTerm |-> NoneNum, endOfTerm |-> NoneNum]

RECURSIVE sum_scores(_)
\* total_score: the sum of the subjects' scores
sum_scores(graded) ==
    IF Len(graded) = 0 THEN 0 ELSE graded[1].score + sum_scores(Tail(graded))

\* the document save_gradebook builds before it looks for an existing entry:
\* overall_score is total_score / subject_count (0 without subjects), banded
\* unrounded and stored rounded to 2 decimals
gradebook_doc(entry, current_user) ==
    LET subjects_with_grades ==
            [i \in DOMAIN entry.subjects |-> subject_with_grade(entry.subjects[i])]
        total_score == sum_scores(subjects_with_grades)
        subject_count == Len(entry.subjects)
        overall_info == IF subject_count > 0
                        THEN get_grade_info(total_score, 100 * subject_count)
                        ELSE get_grade_info(0, 100)
    IN  [student_id |-> entry.student_id,
         class_id |-> entry.class_id,
         school_code |-> current_user.school_code,
         term |-> entry.term,
         academic_year |-> entry.academic_year,
         subjects |-> subjects_with_grades,
         overall_score |-> IF subject_count > 0
                           THEN round(total_score, subject_count) ELSE 0,
         overall_grade |-> overall_info.grade,
         overall_points |-> overall_info.points,
         overall_domain |-> overall_info.domain,
         graded_by |-> current_user.id,
         updated_at |-> clock]

\* existing = db.gradebook.find_one({student_id, term, academic_year, school_code})
gradebook_find(entry, current_user) ==
    find_one(gradebook, [student_id |-> entry.student_id,
                         term |-> entry.term,
                         academic_year |-> entry.academic_year,
                         school_code |-> current_user.school_code])

\* the document returned (and, on the insert path, stored)
gradebook_saved(doc, existing) ==
    IF Len(existing) > 0
    THEN set_fields(doc, [id |-> existing[1].id, created_at |-> existing[1].created_at])
    ELSE set_fields(doc, [id |-> nextId, created_at |-> doc.updated_at])

\* a save_gradebook that inserts whether or not an entry was found
gradebook_write_insert_only(doc, existing) ==
    insert_one(gradebook, gradebook_saved(doc, existing))

\* the write of save_gradebook, decided by what the earlier find_one returned
gradebook_write(doc, existing) ==
    IF Len(existing) > 0
    THEN update_one(gradebook, [id |-> existing[1].id], doc)
    ELSE insert_one(gradebook, gradebook_saved(doc, existing))

\* POST /gradebook, run to completion
save_gradebook(token, entry) ==
    LET auth == require_permission("manage_grades", token)
    IN  IF auth.status # 200 THEN Reject("save_gradebook", auth, entry)
        ELSE \E current_user \in {auth.user[1]} :
             \E doc \in {gradebook_doc(entry, current_user)} :
             \E existing \in {gradebook_find(entry, current_user)} :
                 /\ Len(existing) > 0 \/ nextId <= MaxId
                 /\ gradebook' = gradebook_write(doc, existing)
                 /\ nextId' = IF Len(existing) > 0 THEN nextId ELSE nextId + 1
                 /\ resp' = Response("save_gradebook", 200, "",
                                     << gradebook_saved(doc, existing) >>,
                                     auth.user, entry)
                 /\ UNCHANGED <<schools, users, students, classes, attendance,
                                social_skills, report_templates, tokens, clock,
                                inflight>>

(* ------------------------------ students ------------------------------ *)
\* a request served by the handler: the response, and what it leaves alone
\* besides the collections
Serve(op, status, detail, body, auth, req) ==
    /\ resp' = Response(op, status, detail, body, auth.user, req)
    /\ UNCHANGED <<report_templates, tokens, clock, inflight>>

\* query[field] = value, added to a query when cond holds
with_filter(query, cond, extra) == IF cond THEN set_fields(query, extra) ELSE query

\* POST /students
create_student(token, student) ==
    LET auth == require_permission("manage_students", token)
    IN  IF auth.status # 200 THEN Reject("create_student", auth, student)
        ELSE \E doc \in {set_fields([id |-> nextId,
                                     school_code |-> auth.user[1].school_code,
                                     created_at |-> clock, updated_at |-> clock],
                                    student)} :
                 /\ nextId <= MaxId
                 /\ students' = insert_one(students, doc)
                 /\ nextId' = nextId + 1
                 /\ Serve("create_student", 200, "", << doc >>, auth, student)
                 /\ UNCHANGED <<schools, users, classes, attendance, gradebook,
                                social_skills>>

\* a get_students query that does not narrow a parent's list
students_query_all(class_id, current_user) ==
    with_filter([school_code |-> current_user.school_code],
                class_id # NoneId, [class_id |-> class_id])

\* the query of get_students
students_query(class_id, current_user) ==
    with_filter(with_filter([school_code |-> current_user.school_code],
                            class_id # NoneId, [class_id |-> class_id]),
                current_user.role = PARENT, [parent_id |-> current_user.id])

\* GET /students
get_students(token, class_id) ==
    LET auth == get_current_user(token)
    IN  IF auth.status # 200 THEN Reject("get_students", auth, [class_id |-> class_id])
        ELSE /\ Serve("get_students", 200, "",
                      find(students, students_query(class_id, auth.user[1])),
                      auth, [class_id |-> class_id])
             /\ UNCHANGED <<stores, nextId>>

\* a by-id query that leaves the school out
by_id_any_school(id, current_user) == [id |-> id]

\* the query of the by-id handlers: {"id": id, "school_code": session school}
by_id(id, current_user) == [id |-> id, school_code |-> current_user.school_code]

\* GET /students/{student_id}
get_student(token, student_id) ==
    LET auth == get_current_user(token)
        req == [id |-> student_id]
    IN  IF auth.status # 200 THEN Reject("get_student", auth, req)
        ELSE \E student \in {find_one(students, by_id(student_id, auth.user[1]))} :
                 /\ IF Len(student) = 0
                    THEN Serve("get_student", 404, "Student not found", << >>, auth, req)
                    ELSE IF /\ auth.user[1].role = PARENT
                            /\ get_field(student[1], "parent_id", NoneId) # auth.user[1].id
                    THEN Serve("get_student", 403, "Access denied", << >>, auth, req)
                    ELSE Serve("get_student", 200, "", student, auth, req)
                 /\ UNCHANGED <<stores, nextId>>

\* PUT /students/{student_id}
update_student(token, student_id, student) ==
    LET auth == require_permission("manage_students", token)
        req == [id |-> student_id, data |-> student]
    IN  IF auth.status # 200 THEN Reject("update_student", auth, req)
        ELSE \E query \in {by_id(student_id, auth.user[1])} :
                 IF Len(find_one(students, query)) = 0
                 THEN /\ Serve("update_student", 404, "Student not found", << >>, auth, req)
                      /\ UNCHANGED <<stores, nextId>>
                 ELSE /\ students' = update_one(students, query,
                                                set_fields(student, [updated_at |-> clock]))
                      /\ Serve("update_student", 200, "", find_one(students', query),
                               auth, req)
                      /\ UNCHANGED <<schools, users, classes, attendance, gradebook,
                                     social_skills, nextId>>

\* DELETE /students/{student_id}
delete_student(token, student_id) ==
    LET auth == require_permission("manage_students", token)
        req == [id |-> student_id]
    IN  IF auth.status # 200 THEN Reject("delete_student", auth, req)
        ELSE \E query \in {by_id(student_id, auth.user[1])} :
                 IF first_index(students, query) = 0
                 THEN /\ Serve("delete_student", 404, "Student not found", << >>, auth, req)
                      /\ UNCHANGED <<stores, nextId>>
                 ELSE /\ students' = delete_one(students, query)
                      /\ Serve("delete_student", 200, "Student deleted successfully",
                               << >>, auth, req)
                      /\ UNCHANGED <<schools, users, classes, attendance, gradebook,
                                     social_skills, nextId>>

\* a reader that yields a row for every line after the header
DictReader_every_line(lines) == lines

\* csv.DictReader over the lines after the header: a line is the record of
\* its fields, an empty line has none and is not yielded
DictReader(lines) == SelectSeq(lines, LAMBDA line : DOMAIN line # {})

\* filename.endswith('.csv')
is_csv(filename) == filename \in {"students.csv", "teachers.csv"}

\* the state of the loop of import_students_csv
import_state(coll, id, imported, errors) ==
    [coll |-> coll, id |-> id, imported |-> imported, errors |-> errors]

RECURSIVE import_students_loop(_, _, _, _, _)
\* for row_num, row in enumerate(reader, start=2): a row without first_name
\* or last_name is reported and skipped, every other row is inserted
import_students_loop(st, rows, row_num, class_id, current_user) ==
    IF Len(rows) = 0 THEN st
    ELSE LET row == rows[1]
             student_doc == [id |-> st.id,
                             first_name |-> get_field(row, "first_name", ""),
                             last_name |-> get_field(row, "last_name", ""),
                             class_id |-> class_id,
                             school_code |-> current_user.school_code,
                             created_at |-> clock,
                             updated_at |-> clock]
         IN  import_students_loop(
                 IF student_doc.first_name = "" \/ student_doc.last_name = ""
                 THEN import_state(st.coll, st.id, st.imported,
                                   Append(st.errors, row_num))
                 ELSE import_state(insert_one(st.coll, student_doc), st.id + 1,
                                   st.imported + 1, st.errors),
                 Tail(rows), row_num + 1, class_id, current_user)

\* POST /import/students
import_students_csv(token, class_id, filename, rows) ==
    LET auth == require_roles({SUPERUSER, ADMIN}, token)
        req == [class_id |-> class_id, filename |-> filename, rows |-> rows]
    IN  IF auth.status # 200 THEN Reject("import_students_csv", auth, req)
        ELSE IF ~is_csv(filename)
        THEN /\ Serve("import_students_csv", 400, "File must be a CSV", << >>, auth, req)
             /\ UNCHANGED <<stores, nextId>>
        ELSE \E st \in {import_students_loop(import_state(students, nextId, 0, << >>),
                                             DictReader(rows), 2, class_id,
                                             auth.user[1])} :
                 /\ st.id <= MaxId + 1
                 /\ students' = st.coll
                 /\ nextId' = st.id
                 /\ Serve("import_students_csv", 200, "",
                          << [imported |-> st.imported, errors |-> st.errors] >>,
                          auth, req)
                 /\ UNCHANGED <<schools, users, classes, attendance, gradebook,
                                social_skills>>

(* ------------------------------- classes ------------------------------ *)
\* POST /classes: a teacher who names no teacher becomes the class's teacher
create_class(token, class_data) ==
    LET auth == require_permission("manage_classes", token)
    IN  IF auth.status # 200 THEN Reject("create_class", auth, class_data)
        ELSE \E current_user \in {auth.user[1]} :
             \E class_dict \in {IF current_user.role = TEACHER
                                   /\ class_data.teacher_id = NoneId
                                THEN [class_data EXCEPT !.teacher_id = current_user.id]
                                ELSE class_data} :
             \E doc \in {set_fields([id |-> nextId,
                                     school_code |-> current_user.school_code,
                                     created_by |-> current_user.id,
                                     created_at |-> clock],
                                    class_dict)} :
                 /\ nextId <= MaxId
                 /\ classes' = insert_one(classes, doc)
                 /\ nextId' = nextId + 1
                 /\ Serve("create_class", 200, "", << doc >>, auth, class_data)
                 /\ UNCHANGED <<schools, users, students, attendance, gradebook,
                                social_skills>>

\* GET /classes: a teacher sees the classes they teach or created
get_classes(token) ==
    LET auth == get_current_user(token)
    IN  IF auth.status # 200 THEN Reject("get_classes", auth, << >>)
        ELSE \E current_user \in {auth.user[1]} :
             \E found \in {find(classes, [school_code |-> current_user.school_code])} :
                 /\ Serve("get_classes", 200, "",
                          IF current_user.role = TEACHER
                          THEN SelectSeq(found, LAMBDA c :
                                   \/ c.teacher_id = current_user.id
                                   \/ c.created_by = current_user.id)
                          ELSE found,
                          auth, << >>)
                 /\ UNCHANGED <<stores, nextId>>

\* GET /classes/{class_id}
get_class(token, class_id) ==
    LET auth == get_current_user(token)
        req == [id |-> class_id]
    IN  IF auth.status # 200 THEN Reject("get_class", auth, req)
        ELSE \E cls \in {find_one(classes, by_id(class_id, auth.user[1]))} :
                 /\ IF Len(cls) = 0
                    THEN Serve("get_class", 404, "Class not found", << >>, auth, req)
                    ELSE Serve("get_class", 200, "", cls, auth, req)
                 /\ UNCHANGED <<stores, nextId>>

\* PUT /classes/{class_id}
update_class(token, class_id, class_data) ==
    LET auth == require_permission("manage_classes", token)
        req == [id |-> class_id, data |-> class_data]
    IN  IF auth.status # 200 THEN Reject("update_class", auth, req)
        ELSE \E query \in {by_id(class_id, auth.user[1])} :
                 IF first_index(classes, query) = 0
                 THEN /\ Serve("update_class", 404, "Class not found", << >>, auth, req)
                      /\ UNCHANGED <<stores, nextId>>
                 ELSE /\ classes' = update_one(classes, query, class_data)
                      /\ Serve("update_class", 200, "", find_one(classes', query),
                               auth, req)
                      /\ UNCHANGED <<schools, users, students, attendance, gradebook,
                                     social_skills, nextId>>

\* DELETE /classes/{class_id}
delete_class(token, class_id) ==
    LET auth == require_permission("manage_classes", token)
        req == [id |-> class_id]
    IN  IF auth.status # 200 THEN Reject("delete_class", auth, req)
        ELSE \E query \in {by_id(class_id, auth.user[1])} :
                 IF first_index(classes, query) = 0
                 THEN /\ Serve("delete_class", 404, "Class not found", << >>, auth, req)
                      /\ UNCHANGED <<stores, nextId>>
                 ELSE /\ classes' = delete_one(classes, query)
                      /\ Serve("delete_class", 200, "Class deleted successfully",
                               << >>, auth, req)
                      /\ UNCHANGED <<schools, users, students, attendance, gradebook,
                                     social_skills, nextId>>

(* ---------------------------- attendance ------------------------------ *)
\* existing = db.attendance.find_one({student_id, date, school_code})
attendance_find(student_id, date, current_user) ==
    find_one(attendance, [student_id |-> student_id, date |-> date,
                          school_code |-> current_user.school_code])

\* doc of mark_attendance; on the update path it is returned under the
\* existing id
attendance_doc(att, existing, current_user) ==
    [id |-> IF Len(existing) > 0 THEN existing[1].id ELSE nextId,
     school_code |-> current_user.school_code,
     student_id |-> att.student_id,
     class_id |-> att.class_id,
     date |-> att.date,
     status |-> att.status,
     marked_by |-> current_user.id,
     created_at |-> clock]

\* a mark_attendance that inserts whether or not a record was found
attendance_write_insert_only(att, existing, current_user) ==
    insert_one(attendance, attendance_doc(att, existing, current_user))

\* a mark_attendance whose write looks the record up again (an atomic upsert)
attendance_write_upsert(att, existing, current_user) ==
    LET found == attendance_find(att.student_id, att.date, current_user)
    IN  IF Len(found) > 0
        THEN update_one(attendance, [id |-> found[1].id],
                        [student_id |-> att.student_id, class_id |-> att.class_id,
                         date |-> att.date, status |-> att.status,
                         marked_by |-> current_user.id])
        ELSE insert_one(attendance, attendance_doc(att, found, current_user))

\* the write of mark_attendance, decided by what the earlier find_one returned
attendance_write(att, existing, current_user) ==
    IF Len(existing) > 0
    THEN update_one(attendance, [id |-> existing[1].id],
                    [student_id |-> att.student_id, class_id |-> att.class_id,
                     date |-> att.date, status |-> att.status,
                     marked_by |-> current_user.id])
    ELSE insert_one(attendance, attendance_doc(att, existing, current_user))

\* POST /attendance, run to completion
mark_attendance(token, att) ==
    LET auth == require_permission("manage_attendance", token)
    IN  IF auth.status # 200 THEN Reject("mark_attendance", auth, att)
        ELSE \E current_user \in {auth.user[1]} :
             \E existing \in {attendance_find(att.student_id, att.date, current_user)} :
                 /\ Len(existing) > 0 \/ nextId <= MaxId
                 /\ attendance' = attendance_write(att, existing, current_user)
                 /\ nextId' = IF Len(existing) > 0 THEN nextId ELSE nextId + 1
                 /\ resp' = Response("mark_attendance", 200, "",
                                     << attendance_doc(att, existing, current_user) >>,
                                     auth.user, att)
                 /\ UNCHANGED <<schools, users, students, classes, gradebook,
                                social_skills, report_templates, tokens, clock,
                                inflight>>

\* the state of the loop of mark_bulk_attendance
bulk_state(coll, id, created_count, updated_count, error) ==
    [coll |-> coll, id |-> id, created_count |-> created_count,
     updated_count |-> updated_count, error |-> error]

\* one iteration of the loop over data.records: record["student_id"] and
\* record["status"] raise KeyError when the key is absent, the first before
\* the find_one, the second before the write
bulk_record(st, record, data, current_user) ==
    IF "student_id" \notin DOMAIN record
    THEN [st EXCEPT !.error = TRUE]
    ELSE LET existing == find_one(st.coll, [student_id |-> record.student_id,
                                            date |-> data.date,
                                            school_code |-> current_user.school_code])
         IN  IF "status" \notin DOMAIN record
             THEN [st EXCEPT !.error = TRUE]
             ELSE IF Len(existing) > 0
             THEN bulk_state(update_one(st.coll, [id |-> existing[1].id],
                                        [status |-> record.status,
                                         marked_by |-> current_user.id]),
                             st.id, st.created_count, st.updated_count + 1, FALSE)
             ELSE bulk_state(insert_one(st.coll,
                                        [id |-> st.id,
                                         school_code |-> current_user.school_code,
                                         student_id |-> record.student_id,
                                         class_id |-> data.class_id,
                                         date |-> data.date,
                                         status |-> record.status,
                                         marked_by |-> current_user.id,
                                         created_at |-> clock]),
                             st.id + 1, st.created_count + 1, st.updated_count, FALSE)

RECURSIVE bulk_loop(_, _, _, _)
\* for record in data.records: ..., stopping at the first exception
bulk_loop(st, records, data, current_user) ==
    IF Len(records) = 0 \/ st.error THEN st
    ELSE bulk_loop(bulk_record(st, records[1], data, current_user),
                   Tail(records), data, current_user)

\* POST /attendance/bulk, run to completion (an uncaught KeyError is a 500 and
\* what the loop wrote before it stays written)
mark_bulk_attendance(token, data) ==
    LET auth == require_permission("manage_attendance", token)
    IN  IF auth.status # 200 THEN Reject("mark_bulk_attendance", auth, data)
        ELSE \E st \in {bulk_loop(bulk_state(attendance, nextId, 0, 0, FALSE),
                                  data.records, data, auth.user[1])} :
                 /\ st.id <= MaxId + 1
                 /\ attendance' = st.coll
                 /\ nextId' = st.id
                 /\ resp' = IF st.error
                            THEN Response("mark_bulk_attendance", 500,
                                          "Internal Server Error", << >>, auth.user, data)
                            ELSE Response("mark_bulk_attendance", 200, "",
                                          << [created_count |-> st.created_count,
                                              updated_count |-> st.updated_count] >>,
                                          auth.user, data)
                 /\ UNCHANGED <<schools, users, students, classes, gradebook,
                                social_skills, report_templates, tokens, clock,
                                inflight>>

(* ----------------------- queries on the records ----------------------- *)
\* child_ids: the ids of the session parent's students in the session school
child_ids(current_user) ==
    {c.id : c \in Docs(find(students, [parent_id |-> current_user.id,
                                       school_code |-> current_user.school_code]))}

\* find(query) of get_attendance and get_gradebook: for a parent the
\* student_id filter is replaced by {"$in": child_ids}
find_for(coll, query, current_user) ==
    IF current_user.role = PARENT
    THEN SelectSeq(find(coll, [f \in DOMAIN query \ {"student_id"} |-> query[f]]),
                   LAMBDA d : d.student_id \in child_ids(current_user))
    ELSE find(coll, query)

\* GET /attendance (of the optional filters, student_id)
get_attendance(token, student_id) ==
    LET auth == get_current_user(token)
        req == [student_id |-> student_id]
    IN  IF auth.status # 200 THEN Reject("get_attendance", auth, req)
        ELSE \E current_user \in {auth.user[1]} :
             \E query \in {with_filter([school_code |-> current_user.school_code],
                                       student_id # NoneId,
                                       [student_id |-> student_id])} :
                 /\ Serve("get_attendance", 200, "",
                          find_for(attendance, query, current_user), auth, req)
                 /\ UNCHANGED <<stores, nextId>>

\* GET /gradebook (of the optional filters, student_id)
get_gradebook(token, student_id) ==
    LET auth == get_current_user(token)
        req == [student_id |-> student_id]
    IN  IF auth.status # 200 THEN Reject("get_gradebook", auth, req)
        ELSE \E current_user \in {auth.user[1]} :
             \E query \in {with_filter([school_code |-> current_user.school_code],
                                       student_id # NoneId,
                                       [student_id |-> student_id])} :
                 /\ Serve("get_gradebook", 200, "",
                          find_for(gradebook, query, current_user), auth, req)
                 /\ UNCHANGED <<stores, nextId>>

\* DELETE /gradebook/{gradebook_id}
delete_gradebook(token, gradebook_id) ==
    LET auth == require_permission("manage_grades", token)
        req == [id |-> gradebook_id]
    IN  IF auth.status # 200 THEN Reject("delete_gradebook", auth, req)
        ELSE \E query \in {by_id(gradebook_id, auth.user[1])} :
                 IF first_index(gradebook, query) = 0
                 THEN /\ Serve("delete_gradebook", 404, "Gradebook entry not found",
                               << >>, auth, req)
                      /\ UNCHANGED <<stores, nextId>>
                 ELSE /\ gradebook' = delete_one(gradebook, query)
                      /\ Serve("delete_gradebook", 200, "Gradebook entry deleted",
                               << >>, auth, req)
                      /\ UNCHANGED <<schools, users, students, classes, attendance,
                                     social_skills, nextId>>

(* ---------------------------- report cards ---------------------------- *)
\* the query the report cards and the social skills share
term_query(student_id, term, academic_year, current_user) ==
    [student_id |-> student_id, term |-> term, academic_year |-> academic_year,
     school_code |-> current_user.school_code]

\* len([a for a in attendance_records if a["status"] == status])
count_status(attendance_records, status) ==
    Len(SelectSeq(attendance_records, LAMBDA a : a.status = status))

\* attendance_summary of a student's records in the session school
attendance_summary(student_id, current_user) ==
    LET attendance_records ==
            find(attendance, [student_id |-> student_id,
                              school_code |-> current_user.school_code])
    IN  [total_days |-> Len(attendance_records),
         present |-> count_status(attendance_records, "present"),
         absent |-> count_status(attendance_records, "absent"),
         late |-> count_status(attendance_records, "late"),
         excused |-> count_status(attendance_records, "excused")]

\* the body of a student's report card
student_report_card(student, term, academic_year, current_user) ==
    [student |-> student,
     grades |-> find_one(gradebook,
                         term_query(student.id, term, academic_year, current_user)),
     attendance_summary |-> attendance_summary(student.id, current_user),
     class_info |-> IF get_field(student, "class_id", NoneId) # NoneId
                    THEN find_one(classes, by_id(student.class_id, current_user))
                    ELSE << >>,
     term |-> term,
     academic_year |-> academic_year]

\* GET /report-card/{student_id}
get_student_report_card(token, student_id, term, academic_year) ==
    LET auth == get_current_user(token)
        req == [id |-> student_id, term |-> term, academic_year |-> academic_year]
    IN  IF auth.status # 200 THEN Reject("get_student_report_card", auth, req)
        ELSE \E current_user \in {auth.user[1]} :
             \E student \in {find_one(students, by_id(student_id, current_user))} :
                 /\ IF Len(student) = 0
                    THEN Serve("get_student_report_card", 404, "Student not found",
                               << >>, auth, req)
                    ELSE IF /\ current_user.role = PARENT
                            /\ get_field(student[1], "parent_id", NoneId) # current_user.id
                    THEN Serve("get_student_report_card", 403, "Access denied",
                               << >>, auth, req)
                    ELSE Serve("get_student_report_card", 200, "",
                               << student_report_card(student[1], term, academic_year,
                                                      current_user) >>,
                               auth, req)
                 /\ UNCHANGED <<stores, nextId>>

\* one element of report_cards, before the cards are ranked
class_report_card(student, term, academic_year, current_user) ==
    LET social == find_one(social_skills,
                           term_query(student.id, term, academic_year, current_user))
    IN  [student |-> student,
         grades |-> find_one(gradebook,
                             term_query(student.id, term, academic_year, current_user)),
         attendance_summary |-> attendance_summary(student.id, current_user),
         social_skills |-> IF Len(social) > 0 THEN social[1].skills ELSE << >>]

\* the sort key: the card's overall_score, 0 without grades
sort_key(card) == IF Len(card.grades) > 0 THEN card.grades[1].overall_score ELSE 0

\* card placed in front of the cards whose key is its own
insert_card_before_equals(sorted, card) ==
    LET ahead == {i \in DOMAIN sorted : sort_key(sorted[i]) <= sort_key(card)}
        at == IF ahead = {} THEN Len(sorted) + 1
              ELSE CHOOSE i \in ahead : \A j \in ahead : i <= j
    IN  SubSeq(sorted, 1, at - 1) \o << card >> \o SubSeq(sorted, at, Len(sorted))

\* card placed behind every card whose key is at least its own
insert_card(sorted, card) ==
    LET ahead == {i \in DOMAIN sorted : sort_key(sorted[i]) < sort_key(card)}
        at == IF ahead = {} THEN Len(sorted) + 1
              ELSE CHOOSE i \in ahead : \A j \in ahead : i <= j
    IN  SubSeq(sorted, 1, at - 1) \o << card >> \o SubSeq(sorted, at, Len(sorted))

RECURSIVE sort_cards(_, _)
\* report_cards.sort(key=..., reverse=True): stable, highest score first
sort_cards(sorted, cards) ==
    IF Len(cards) = 0 THEN sorted
    ELSE sort_cards(insert_card(sorted, cards[1]), Tail(cards))

\* card["position"] = idx + 1
with_positions(cards) ==
    [i \in DOMAIN cards |-> set_fields(cards[i], [position |-> i])]

\* GET /report-cards/class/{class_id}
get_class_report_cards(token, class_id, term, academic_year) ==
    LET auth == require_permission("generate_reports", token)
        req == [id |-> class_id, term |-> term, academic_year |-> academic_year]
    IN  IF auth.status # 200 THEN Reject("get_class_report_cards", auth, req)
        ELSE \E current_user \in {auth.user[1]} :
             \E class_info \in {find_one(classes, by_id(class_id, current_user))} :
                 /\ IF Len(class_info) = 0
                    THEN Serve("get_class_report_cards", 404, "Class not found",
                               << >>, auth, req)
                    ELSE \E members \in {find(students,
                                              [class_id |-> class_id,
                                               school_code |-> current_user.school_code])} :
                         Serve("get_class_report_cards", 200, "",
                               << [class_info |-> class_info[1],
                                   term |-> term,
                                   academic_year |-> academic_year,
                                   total_students |-> Len(members),
                                   report_cards |-> with_positions(sort_cards(<< >>,
                                       [i \in DOMAIN members |->
                                           class_report_card(members[i], term,
                                                             academic_year,
                                                             current_user)]))] >>,
                               auth, req)
                 /\ UNCHANGED <<stores, nextId>>

(* ---------------------------- social skills --------------------------- *)
\* POST /social-skills
save_social_skills(token, entry) ==
    LET auth == require_permission("manage_grades", token)
    IN  IF auth.status # 200 THEN Reject("save_social_skills", auth, entry)
        ELSE \E current_user \in {auth.user[1]} :
             \E existing \in {find_one(social_skills,
                                       term_query(entry.student_id, entry.term,
                                                  entry.academic_year, current_user))} :
                 IF Len(existing) > 0
                 THEN /\ social_skills' = update_one(social_skills,
                                                     [id |-> existing[1].id],
                                                     [skills |-> entry.skills,
                                                      updated_at |-> clock])
                      /\ Serve("save_social_skills", 200, "Social skills updated",
                               << [id |-> existing[1].id] >>, auth, entry)
                      /\ UNCHANGED <<schools, users, students, classes, attendance,
                                     gradebook, nextId>>
                 ELSE /\ nextId <= MaxId
                      /\ social_skills' = insert_one(social_skills,
                             [id |-> nextId,
                              student_id |-> entry.student_id,
                              term |-> entry.term,
                              academic_year |-> entry.academic_year,
                              school_code |-> current_user.school_code,
                              skills |-> entry.skills,
                              created_at |-> clock,
                              updated_at |-> clock])
                      /\ nextId' = nextId + 1
                      /\ Serve("save_social_skills", 200, "Social skills saved",
                               << [id |-> nextId] >>, auth, entry)
                      /\ UNCHANGED <<schools, users, students, classes, attendance,
                                     gradebook>>

\* GET /social-skills/{student_id}
get_social_skills(token, student_id, term, academic_year) ==
    LET auth == get_current_user(token)
        req == [id |-> student_id, term |-> term, academic_year |-> academic_year]
    IN  IF auth.status # 200 THEN Reject("get_social_skills", auth, req)
        ELSE /\ Serve("get_social_skills", 200, "",
                      find_one(social_skills,
                               term_query(student_id, term, academic_year,
                                          auth.user[1])),
                      auth, req)
             /\ UNCHANGED <<stores, nextId>>

(* ------------------- a provisioned deployment ------------------------- *)
\* The state the data specifications start in: startup has run (school JTECH
\* and the superuser exist), the superuser has created school WPS and an
\* admin, a teacher and two parents in it, and they have logged in.
SUPERUSER_NAME == "jtech.innovations@outlook.com"

\* the role defaults of create_user
default_permissions(role) ==
    CASE role = ADMIN -> ALL_PERMISSIONS \ {"manage_schools"}
      [] role = TEACHER -> {"manage_students", "manage_classes", "manage_attendance",
                            "manage_grades", "view_reports", "generate_reports"}
      [] role = PARENT -> {"view_reports"}
      [] OTHER -> {}

school_doc(id, school_code, is_active) ==
    [id |-> id, school_code |-> school_code, is_active |-> is_active]

user_doc(id, username, role, school_code, permissions, password) ==
    [id |-> id, username |-> username, role |-> role, school_code |-> school_code,
     permissions |-> permissions, password_hash |-> hash_password(password)]

JtechSchool == school_doc(1, "JTECH", TRUE)
SuperUser == user_doc(2, SUPERUSER_NAME, SUPERUSER, "JTECH", ALL_PERMISSIONS, "Xekleidoma@1")
WpsSchool == school_doc(3, "WPS", TRUE)
WpsAdmin == user_doc(4, "wps.admin", ADMIN, "WPS", default_permissions(ADMIN), "pw.admin")
WpsTeacher == user_doc(5, "wps.teacher", TEACHER, "WPS", default_permissions(TEACHER), "pw.teacher")
WpsParent == user_doc(6, "wps.parent", PARENT, "WPS", default_permissions(PARENT), "pw.parent")
WpsParent2 == user_doc(7, "wps.parent2", PARENT, "WPS", default_permissions(PARENT), "pw.parent2")
FirstFreeId == 8

\* the token login hands the account for a session in school_code
session(user, school_code) == create_access_token(user.id, user.role, school_code)

Provisioned ==
    /\ schools = << JtechSchool, WpsSchool >>
    /\ users = << SuperUser, WpsAdmin, WpsTeacher, WpsParent, WpsParent2 >>
    /\ students = << >>
    /\ classes = << >>
    /\ attendance = << >>
    /\ gradebook = << >>
    /\ social_skills = << >>
    /\ report_templates = << build_default_template("WPS") >>
    /\ clock = 0
    /\ nextId = FirstFreeId
    /\ inflight = [conn \in Connections |-> Idle]
    /\ resp = Response("startup", 200, "", << >>, << >>, << >>)

(* -------------------------------- users ------------------------------- *)
\* a response of a users route; the other collections and the clock stay
Answer(op, status, detail, body, auth, req) ==
    /\ resp' = Response(op, status, detail, body, auth.user, req)
    /\ UNCHANGED <<schools, students, classes, attendance, gradebook, social_skills,
                   report_templates,
                   tokens, clock, inflight>>

\* GET /users: a superuser sees the users of every school
get_users(token) ==
    LET auth == require_roles({ADMIN}, token)
    IN  IF auth.status # 200 THEN Reject("get_users", auth, << >>)
        ELSE \E query \in {with_filter([f \in {} |-> 0],
                                       auth.user[1].role # SUPERUSER,
                                       [school_code |-> auth.user[1].school_code])} :
                 /\ Answer("get_users", 200, "",
                           [i \in DOMAIN find(users, query) |->
                               user_response(find(users, query)[i])],
                           auth, << >>)
                 /\ UNCHANGED <<users, nextId>>

\* POST /users
create_user(token, user_data) ==
    LET auth == require_roles({ADMIN}, token)
    IN  IF auth.status # 200 THEN Reject("create_user", auth, user_data)
        ELSE \E current_user \in {auth.user[1]} :
             \E school_code \in {IF current_user.role # SUPERUSER
                                 THEN current_user.school_code
                                 ELSE upper(user_data.school_code)} :
                 IF Len(find_one(schools, [school_code |-> school_code])) = 0
                 THEN /\ Answer("create_user", 400, "Invalid school code", << >>,
                                auth, user_data)
                      /\ UNCHANGED <<users, nextId>>
                 ELSE IF Len(find_one(users, [username |-> user_data.username,
                                              school_code |-> school_code])) > 0
                 THEN /\ Answer("create_user", 400,
                                "Username already exists in this school", << >>,
                                auth, user_data)
                      /\ UNCHANGED <<users, nextId>>
                 ELSE IF user_data.role = SUPERUSER /\ current_user.role # SUPERUSER
                 THEN /\ Answer("create_user", 403, "Cannot create superuser account",
                                << >>, auth, user_data)
                      /\ UNCHANGED <<users, nextId>>
                 ELSE \E doc \in {user_doc(nextId, user_data.username, user_data.role,
                                           school_code,
                                           IF user_data.permissions = {}
                                           THEN default_permissions(user_data.role)
                                           ELSE user_data.permissions,
                                           user_data.password)} :
                          /\ nextId <= MaxId
                          /\ users' = insert_one(users, doc)
                          /\ nextId' = nextId + 1
                          /\ Answer("create_user", 200, "", << user_response(doc) >>,
                                    auth, user_data)

\* PUT /users/{user_id}/role
update_user_role(token, user_id, role_data) ==
    LET auth == require_roles({ADMIN}, token)
        req == [id |-> user_id, data |-> role_data]
        refuse(status, detail) ==
            /\ Answer("update_user_role", status, detail, << >>, auth, req)
            /\ UNCHANGED <<users, nextId>>
    IN  IF auth.status # 200 THEN Reject("update_user_role", auth, req)
        ELSE \E current_user \in {auth.user[1]} :
             \E user \in {find_one(users, [id |-> user_id])} :
                 IF Len(user) = 0 THEN refuse(404, "User not found")
                 ELSE IF /\ current_user.role # SUPERUSER
                         /\ user[1].school_code # current_user.school_code
                 THEN refuse(403, "Cannot modify users from other schools")
                 ELSE IF user[1].role = SUPERUSER /\ current_user.role # SUPERUSER
                 THEN refuse(403, "Cannot modify superuser account")
                 ELSE IF role_data.role = SUPERUSER /\ current_user.role # SUPERUSER
                 THEN refuse(403, "Cannot assign superuser role")
                 ELSE /\ users' = update_one(users, [id |-> user_id],
                                     IF Len(role_data.permissions) > 0
                                     THEN [role |-> role_data.role,
                                           permissions |-> role_data.permissions[1]]
                                     ELSE [role |-> role_data.role])
                      /\ Answer("update_user_role", 200, "User updated successfully",
                                << >>, auth, req)
                      /\ UNCHANGED nextId

\* a delete that refuses only what is not there or is in another school
delete_user_unguarded(token, user_id) ==
    LET auth == require_roles({ADMIN}, token)
        req == [id |-> user_id]
    IN  IF auth.status # 200 THEN Reject("delete_user", auth, req)
        ELSE \E user \in {find_one(users, [id |-> user_id])} :
                 IF \/ Len(user) = 0
                    \/ /\ auth.user[1].role # SUPERUSER
                       /\ user[1].school_code # auth.user[1].school_code
                 THEN /\ Answer("delete_user", 404, "User not found", << >>, auth, req)
                      /\ UNCHANGED <<users, nextId>>
                 ELSE /\ users' = delete_one(users, [id |-> user_id])
                      /\ Answer("delete_user", 200, "User deleted successfully",
                                << >>, auth, req)
                      /\ UNCHANGED nextId

\* DELETE /users/{user_id}
delete_user(token, user_id) ==
    LET auth == require_roles({ADMIN}, token)
        req == [id |-> user_id]
        refuse(status, detail) ==
            /\ Answer("delete_user", status, detail, << >>, auth, req)
            /\ UNCHANGED <<users, nextId>>
    IN  IF auth.status # 200 THEN Reject("delete_user", auth, req)
        ELSE \E current_user \in {auth.user[1]} :
             \E user \in {find_one(users, [id |-> user_id])} :
                 IF Len(user) = 0 THEN refuse(404, "User not found")
                 ELSE IF /\ current_user.role # SUPERUSER
                         /\ user[1].school_code # current_user.school_code
                 THEN refuse(403, "Cannot delete users from other schools")
                 ELSE IF user[1].role = SUPERUSER
                 THEN refuse(403, "Cannot delete superuser account")
                 ELSE IF user[1].id = current_user.id
                 THEN refuse(400, "Cannot delete your own account")
                 ELSE /\ users' = delete_one(users, [id |-> user_id])
                      /\ Answer("delete_user", 200, "User deleted successfully",
                                << >>, auth, req)
                      /\ UNCHANGED nextId

(* --------------------------- credentials ------------------------------ *)
\* an absent or empty string of a request body (both are falsy)
NoneStr == ""

\* a check of the target that only compares the schools
reset_refusal_by_school(current_user, user) ==
    IF Len(user) = 0 THEN refusal(404, "User not found")
    ELSE IF /\ current_user.role # SUPERUSER
            /\ user[1].school_code # current_user.school_code
    THEN refusal(403, "Cannot reset credentials for users in other schools")
    ELSE << >>

\* the checks of reset_user_credentials on the account it is asked to change
reset_refusal(current_user, user) ==
    IF Len(user) = 0 THEN refusal(404, "User not found")
    ELSE IF /\ current_user.role # SUPERUSER
            /\ user[1].school_code # current_user.school_code
    THEN refusal(403, "Cannot reset credentials for users in other schools")
    ELSE IF user[1].role = SUPERUSER /\ current_user.role # SUPERUSER
    THEN refusal(403, "Only superuser can reset superuser credentials")
    ELSE << >>

\* a username check that looks in every school's accounts but the account's own
username_taken_elsewhere(username, user) ==
    \E other \in Docs(users) :
        /\ other.username = username
        /\ other.school_code # user.school_code
        /\ other.id # user.id

\* existing = find_one({username, school_code: user's, id: {$ne: user_id}})
username_taken(username, user) ==
    \E other \in Docs(users) :
        /\ other.username = username
        /\ other.school_code = user.school_code
        /\ other.id # user.id

\* update_data of reset_user_credentials
credentials_update(credentials) ==
    IF credentials.username # NoneStr /\ credentials.password # NoneStr
    THEN [username |-> credentials.username,
          password_hash |-> hash_password(credentials.password)]
    ELSE IF credentials.username # NoneStr
    THEN [username |-> credentials.username]
    ELSE [password_hash |-> hash_password(credentials.password)]

\* PUT /users/{user_id}/credentials
reset_user_credentials(token, user_id, credentials) ==
    LET auth == require_roles({SUPERUSER, ADMIN}, token)
        req == [id |-> user_id, data |-> credentials]
        refuse(status, detail) ==
            /\ Answer("reset_user_credentials", status, detail, << >>, auth, req)
            /\ UNCHANGED <<users, nextId>>
    IN  IF auth.status # 200 THEN Reject("reset_user_credentials", auth, req)
        ELSE \E user \in {find_one(users, [id |-> user_id])} :
             \E refused \in {reset_refusal(auth.user[1], user)} :
                 IF Len(refused) > 0 THEN refuse(refused[1].status, refused[1].detail)
                 ELSE IF /\ credentials.username # NoneStr
                         /\ username_taken(credentials.username, user[1])
                 THEN refuse(400, "Username already exists")
                 ELSE IF credentials.username = NoneStr /\ credentials.password = NoneStr
                 THEN refuse(400, "No credentials provided to update")
                 ELSE /\ users' = update_one(users, [id |-> user_id],
                                             credentials_update(credentials))
                      /\ Answer("reset_user_credentials", 200,
                                "Credentials updated successfully", << >>, auth, req)
                      /\ UNCHANGED nextId

(* -------------------------- teachers import --------------------------- *)
\* existing = find_one({username, school_code: session school})
import_teacher_exists(coll, username, current_user) ==
    Len(find_one(coll, [username |-> username,
                        school_code |-> current_user.school_code])) > 0

RECURSIVE import_teachers_loop(_, _, _, _)
\* for row_num, row in enumerate(reader, start=2): a row without username or
\* name, or with a username the school has, is reported and skipped
import_teachers_loop(st, rows, row_num, current_user) ==
    IF Len(rows) = 0 THEN st
    ELSE LET row == rows[1]
             username == get_field(row, "username", "")
             name == get_field(row, "name", "")
             password == get_field(row, "password", "Teacher@123")
         IN  import_teachers_loop(
                 IF \/ username = "" \/ name = ""
                    \/ import_teacher_exists(st.coll, username, current_user)
                 THEN import_state(st.coll, st.id, st.imported,
                                   Append(st.errors, row_num))
                 ELSE import_state(
                          insert_one(st.coll,
                              user_doc(st.id, username, TEACHER,
                                       current_user.school_code,
                                       default_permissions(TEACHER), password)),
                          st.id + 1, st.imported + 1, st.errors),
                 Tail(rows), row_num + 1, current_user)

\* POST /import/teachers
import_teachers_csv(token, filename, rows) ==
    LET auth == require_roles({SUPERUSER, ADMIN}, token)
        req == [filename |-> filename, rows |-> rows]
    IN  IF auth.status # 200 THEN Reject("import_teachers_csv", auth, req)
        ELSE IF ~is_csv(filename)
        THEN /\ Answer("import_teachers_csv", 400, "File must be a CSV", << >>,
                       auth, req)
             /\ UNCHANGED <<users, nextId>>
        ELSE \E st \in {import_teachers_loop(import_state(users, nextId, 0, << >>),
                                             DictReader(rows), 2, auth.user[1])} :
                 /\ st.id <= MaxId + 1
                 /\ users' = st.coll
                 /\ nextId' = st.id
                 /\ Answer("import_teachers_csv", 200, "",
                           << [imported |-> st.imported, errors |-> st.errors] >>,
                           auth, req)

(* ------------------- specification: the gradebook --------------------- *)
\* the student ids the requests name (student_id is a free string)
StudentRefs == {1, 2}

simple_subject(subject, score) ==
    [subject |-> subject, score |-> score, homework |-> NoneNum,
     groupWork |-> NoneNum, project |-> NoneNum, quiz |-> NoneNum,
     midTerm |-> NoneNum, endOfTerm |-> NoneNum]

weighted_subject(subject, score, hw, gw, pr, qz, mt, eot) ==
    [subject |-> subject, score |-> score, homework |-> hw, groupWork |-> gw,
     project |-> pr, quiz |-> qz, midTerm |-> mt, endOfTerm |-> eot]

\* the subject lists the gradebook requests carry
SubjectLists ==
    { << >>,
      << simple_subject("Mathematics", 8950) >>,
      << weighted_subject("Mathematics", 1000, 8000, NoneNum, 9000, 7000, 8500, 9500),
         simple_subject("Science", 9400) >> }

GradebookEntries ==
    [student_id : StudentRefs, class_id : {NoneId}, term : {"Term 1"},
     academic_year : {"2025-2026"}, subjects : SubjectLists]

GradebookInit ==
    /\ Provisioned
    /\ tokens = {session(SuperUser, "JTECH"), session(SuperUser, "WPS")}

GradebookNext ==
    \/ \E token \in tokens, entry \in GradebookEntries : save_gradebook(token, entry)
    \/ Tick(MaxClock)

GradebookSpec == GradebookInit /\ [][GradebookNext]_vars

\* the natural key of a gradebook entry
gradebook_key(g) == << g.student_id, g.term, g.academic_year, g.school_code >>

entries_for(key) == SelectSeq(gradebook, LAMBDA g : gradebook_key(g) = key)

AtMostOneEntryPerKey ==
    \A i, j \in DOMAIN gradebook :
        gradebook_key(gradebook[i]) = gradebook_key(gradebook[j]) => i = j

\* a completed save leaves exactly one entry under the request's key, holding
\* the subjects and overall fields computed from this request alone, with the
\* id and created_at of the entry that was there before, if one was
SaveReplaces ==
    (resp'.op = "save_gradebook" /\ resp'.status = 200) =>
        \A computed \in {gradebook_doc(resp'.req, resp'.user[1])} :
        \A key \in {gradebook_key(computed)} :
        \A before \in {entries_for(key)} :
        \A after \in {SelectSeq(gradebook', LAMBDA g : gradebook_key(g) = key)} :
            /\ Len(after) = 1
            /\ after[1].subjects = computed.subjects
            /\ after[1].overall_score = computed.overall_score
            /\ after[1].overall_grade = computed.overall_grade
            /\ after[1].overall_points = computed.overall_points
            /\ after[1].overall_domain = computed.overall_domain
            /\ Len(before) > 0 => /\ after[1].id = before[1].id
                                  /\ after[1].created_at = before[1].created_at

\* C2: after any sequence of save_gradebook requests served one after another
\* there is at most one gradebook entry per (student_id, term, academic_year,
\* school_code); each save keeps the id and created_at the first save for
\* the key assigned and replaces the subjects and the overall score, grade,
\* points and domain by those computed from its own subjects.
C2_SaveReplacesEntry == []AtMostOneEntryPerKey /\ [][SaveReplaces]_vars

\* an entry saved a second time, later than it was created, is the one the
\* last response returned
C2_Witness ==
    /\ resp.op = "save_gradebook" /\ resp.status = 200
    /\ \E i \in DOMAIN gradebook :
          /\ gradebook[i].id = resp.body[1].id
          /\ gradebook[i].created_at < gradebook[i].updated_at
          /\ Len(gradebook[i].subjects) = 1

(* ------------------- specification: attendance ------------------------ *)
\* the statuses the marks carry (status is a free string in AttendanceBase)
MarkStatuses == {"present", "absent"}

AttendanceMarks ==
    [student_id : StudentRefs, class_id : {NoneId}, date : {"2026-01-05"},
     status : MarkStatuses]

\* records of a bulk request that have both keys
BulkRecords == [student_id : StudentRefs, status : MarkStatuses]

BulkRequests(records) ==
    [class_id : {NoneId}, date : {"2026-01-05"},
     records : UNION {[1..n -> records] : n \in 0..MaxBulk}]

AttendanceInit ==
    /\ Provisioned
    /\ tokens = {session(SuperUser, "WPS"), session(WpsTeacher, "WPS")}

AttendanceNext ==
    \/ \E token \in tokens, att \in AttendanceMarks : mark_attendance(token, att)
    \/ \E token \in tokens, data \in BulkRequests(BulkRecords) :
          mark_bulk_attendance(token, data)

AttendanceSpec == AttendanceInit /\ [][AttendanceNext]_vars

\* the natural key of an attendance record
attendance_key(a) == << a.student_id, a.date, a.school_code >>

AtMostOneRecordPerKey ==
    \A i, j \in DOMAIN attendance :
        attendance_key(attendance[i]) = attendance_key(attendance[j]) => i = j

\* the status the last record of a bulk request gives a student
last_status(records, student_id) ==
    records[CHOOSE i \in DOMAIN records :
                /\ records[i].student_id = student_id
                /\ \A j \in DOMAIN records :
                       records[j].student_id = student_id => j <= i].status

\* records under keys a request did not mark are as they were
OtherKeysKept(marked) ==
    \A i \in DOMAIN attendance :
        attendance_key(attendance[i]) \notin marked =>
            i \in DOMAIN attendance' /\ attendance'[i] = attendance[i]

\* a completed mark leaves exactly one record under its key, with the status
\* of the request and marked_by the caller
MarkApplied ==
    (resp'.op = "mark_attendance" /\ resp'.status = 200) =>
        \A key \in {<< resp'.req.student_id, resp'.req.date,
                       resp'.user[1].school_code >>} :
        \A after \in {SelectSeq(attendance', LAMBDA a : attendance_key(a) = key)} :
            /\ Len(after) = 1
            /\ after[1].status = resp'.req.status
            /\ after[1].marked_by = resp'.user[1].id
            /\ OtherKeysKept({key})

\* a completed bulk request leaves, for every student it lists, exactly one
\* record, with the status of the last record listing the student
BulkApplied ==
    (resp'.op = "mark_bulk_attendance" /\ resp'.status = 200) =>
        \A records \in {resp'.req.records} :
        \A marked \in {{<< records[i].student_id, resp'.req.date,
                           resp'.user[1].school_code >> : i \in DOMAIN records}} :
            /\ \A key \in marked :
               \A after \in {SelectSeq(attendance', LAMBDA a : attendance_key(a) = key)} :
                   /\ Len(after) = 1
                   /\ after[1].status = last_status(records, key[1])
                   /\ after[1].marked_by = resp'.user[1].id
            /\ OtherKeysKept(marked)

\* C3: after any sequence of mark_attendance and mark_bulk_attendance requests
\* served one after another (a bulk request may list a student twice) there is
\* exactly one attendance record per marked (student_id, date, school_code),
\* and its status and marked_by are those of the most recent mark of the key.
C3_OneRecordPerMark == []AtMostOneRecordPerKey /\ [][MarkApplied /\ BulkApplied]_vars

\* a bulk request listing one student twice with different statuses was
\* served by another user than the one who marked the student before
C3_Witness ==
    /\ resp.op = "mark_bulk_attendance" /\ resp.status = 200
    /\ Len(resp.req.records) = 2
    /\ resp.req.records[1].student_id = resp.req.records[2].student_id
    /\ resp.req.records[1].status # resp.req.records[2].status
    /\ resp.body[1].updated_count = 2
    /\ \E i \in DOMAIN attendance :
          /\ attendance[i].student_id = resp.req.records[2].student_id
          /\ attendance[i].school_code = resp.user[1].school_code
          /\ attendance[i].status = resp.req.records[2].status
          /\ attendance[i].marked_by = WpsTeacher.id

(* ------------- specification: requests served concurrently ----------- *)
\* A handler is suspended at each await: between the find_one of
\* mark_attendance / save_gradebook and the update_one / insert_one that
\* follows it, requests on other connections run.

\* a request suspended after its find_one
suspended(op, who, req, doc, existing) ==
    [pc |-> "write", op |-> op, user |-> who, req |-> req, doc |-> doc,
     existing |-> existing]

\* mark_attendance up to and including  existing = await find_one(...)
mark_attendance_find(conn, token, att) ==
    /\ inflight[conn].pc = "idle"
    /\ LET auth == require_permission("manage_attendance", token)
       IN  IF auth.status # 200 THEN Reject("mark_attendance", auth, att)
           ELSE /\ inflight' = [inflight EXCEPT ![conn] =
                       suspended("mark_attendance", auth.user, att, << >>,
                                 attendance_find(att.student_id, att.date, auth.user[1]))]
                /\ UNCHANGED <<stores, tokens, clock, nextId, resp>>

\* mark_attendance from the find_one's return to the response
mark_attendance_write(conn) ==
    /\ inflight[conn].pc = "write" /\ inflight[conn].op = "mark_attendance"
    /\ \E r \in {inflight[conn]} :
          /\ attendance' = attendance_write(r.req, r.existing, r.user[1])
          /\ nextId' = IF Len(r.existing) > 0 THEN nextId ELSE nextId + 1
          /\ resp' = Response("mark_attendance", 200, "",
                              << attendance_doc(r.req, r.existing, r.user[1]) >>,
                              r.user, r.req)
    /\ inflight' = [inflight EXCEPT ![conn] = Idle]
    /\ UNCHANGED <<schools, users, students, classes, gradebook, social_skills,
                   report_templates, tokens, clock>>

\* save_gradebook up to and including  existing = await find_one(...)
save_gradebook_find(conn, token, entry) ==
    /\ inflight[conn].pc = "idle"
    /\ LET auth == require_permission("manage_grades", token)
       IN  IF auth.status # 200 THEN Reject("save_gradebook", auth, entry)
           ELSE /\ inflight' = [inflight EXCEPT ![conn] =
                       suspended("save_gradebook", auth.user, entry,
                                 << gradebook_doc(entry, auth.user[1]) >>,
                                 gradebook_find(entry, auth.user[1]))]
                /\ UNCHANGED <<stores, tokens, clock, nextId, resp>>

\* save_gradebook from the find_one's return to the response
save_gradebook_write(conn) ==
    /\ inflight[conn].pc = "write" /\ inflight[conn].op = "save_gradebook"
    /\ \E r \in {inflight[conn]} :
          /\ gradebook' = gradebook_write(r.doc[1], r.existing)
          /\ nextId' = IF Len(r.existing) > 0 THEN nextId ELSE nextId + 1
          /\ resp' = Response("save_gradebook", 200, "",
                              << gradebook_saved(r.doc[1], r.existing) >>,
                              r.user, r.req)
    /\ inflight' = [inflight EXCEPT ![conn] = Idle]
    /\ UNCHANGED <<schools, users, students, classes, attendance, social_skills,
                   report_templates, tokens, clock>>

RaceMarks == {att \in AttendanceMarks : att.student_id = 1}
RaceEntries == {entry \in GradebookEntries :
                    entry.student_id = 1 /\ Len(entry.subjects) <= 1}

RaceInit ==
    /\ Provisioned
    /\ tokens = {session(WpsTeacher, "WPS")}

RaceNext ==
    \/ \E conn \in Connections, token \in tokens, att \in RaceMarks :
          mark_attendance_find(conn, token, att)
    \/ \E conn \in Connections : mark_attendance_write(conn)
    \/ \E conn \in Connections, token \in tokens, entry \in RaceEntries :
          save_gradebook_find(conn, token, entry)
    \/ \E conn \in Connections : save_gradebook_write(conn)

RaceSpec == RaceInit /\ [][RaceNext]_vars

\* the write of a request whose find_one saw no record, made when another
\* request has stored one under the same key meanwhile, adds a second record
LateAttendanceInsertDuplicates ==
    \A conn \in Connections :
        (/\ inflight[conn].pc = "write" /\ inflight[conn].op = "mark_attendance"
         /\ inflight'[conn].pc = "idle"
         /\ Len(inflight[conn].existing) = 0
         /\ Len(attendance_find(inflight[conn].req.student_id,
                                inflight[conn].req.date, inflight[conn].user[1])) > 0)
        => Len(attendance') = Len(attendance) + 1 /\ ~AtMostOneRecordPerKey'

LateGradebookInsertDuplicates ==
    \A conn \in Connections :
        (/\ inflight[conn].pc = "write" /\ inflight[conn].op = "save_gradebook"
         /\ inflight'[conn].pc = "idle"
         /\ Len(inflight[conn].existing) = 0
         /\ Len(gradebook_find(inflight[conn].req, inflight[conn].user[1])) > 0)
        => Len(gradebook') = Len(gradebook) + 1 /\ ~AtMostOneEntryPerKey'

\* C4: when two mark_attendance (or two save_gradebook) requests for one key
\* run concurrently and both do their find_one before either writes, both
\* insert: two records under one natural key are reachable.
C4_RaceInsertsTwice ==
    [][LateAttendanceInsertDuplicates /\ LateGradebookInsertDuplicates]_vars

\* both collections hold two documents under one natural key
C4_Witness ==
    /\ \E i, j \in DOMAIN attendance :
          i # j /\ attendance_key(attendance[i]) = attendance_key(attendance[j])
    /\ \E i, j \in DOMAIN gradebook :
          i # j /\ gradebook_key(gradebook[i]) = gradebook_key(gradebook[j])

(* ------------------- specification: two schools ----------------------- *)
\* The superuser works in a session of JTECH and in a session of WPS, and the
\* administrator of WPS in a session of WPS. JTECH
\* already holds one document that an earlier request of the JTECH session
\* stored; the id counter stands at MaxId.
TenantIds == {FirstFreeId, MaxId}

TenantStudents ==
    [first_name : {"Ann"}, last_name : {"Lee"}, class_id : {FirstFreeId},
     parent_id : {NoneId}]

TenantStudentUpdates ==
    [first_name : {"Bob"}, last_name : {"Lee"}, class_id : {FirstFreeId},
     parent_id : {NoneId}]

TenantRows == {<< [first_name |-> "Cy", last_name |-> "Lee"] >>,
               << [first_name |-> "Cy"] >>}

TenantClasses == [name : {"1A"}, teacher_id : {NoneId}]

TenantClassUpdates == [name : {"1B"}, teacher_id : {NoneId}]

TenantMarks ==
    [student_id : {FirstFreeId}, class_id : {NoneId}, date : {"2026-01-05"},
     status : MarkStatuses]

TenantBulks ==
    {data \in BulkRequests([student_id : {FirstFreeId}, status : MarkStatuses]) :
        Len(data.records) = 1}

TenantEntries ==
    {entry \in [student_id : {FirstFreeId}, class_id : {NoneId}, term : {"Term 1"},
                academic_year : {"2025-2026"}, subjects : SubjectLists] :
        Len(entry.subjects) > 0}

TenantSkills ==
    [student_id : {FirstFreeId}, term : {"Term 1"}, academic_year : {"2025-2026"},
     skills : {[respect |-> "Excellent"], [respect |-> "Good"]}]

\* the document JTECH holds at the start, as the handler that stored it built it
JtechHoldings ==
    LET stamp == [id |-> FirstFreeId, school_code |-> "JTECH", created_at |-> 0]
        none == [students |-> << >>, classes |-> << >>, attendance |-> << >>,
                 gradebook |-> << >>, social_skills |-> << >>]
    IN  { [none EXCEPT !.students =
              << set_fields(set_fields(stamp, [updated_at |-> 0]),
                            [first_name |-> "Ann", last_name |-> "Lee",
                             class_id |-> FirstFreeId, parent_id |-> NoneId]) >>],
          [none EXCEPT !.classes =
              << set_fields(stamp, [created_by |-> SuperUser.id, name |-> "1A",
                                    teacher_id |-> NoneId]) >>],
          [none EXCEPT !.attendance =
              << set_fields(stamp, [student_id |-> FirstFreeId, class_id |-> NoneId,
                                    date |-> "2026-01-05", status |-> "present",
                                    marked_by |-> SuperUser.id]) >>],
          [none EXCEPT !.gradebook =
              << set_fields(gradebook_doc(
                                [student_id |-> FirstFreeId, class_id |-> NoneId,
                                 term |-> "Term 1", academic_year |-> "2025-2026",
                                 subjects |-> << simple_subject("Mathematics", 8950) >>],
                                SuperUser),
                            stamp) >>],
          [none EXCEPT !.social_skills =
              << set_fields(set_fields(stamp, [updated_at |-> 0]),
                            [student_id |-> FirstFreeId, term |-> "Term 1",
                             academic_year |-> "2025-2026",
                             skills |-> [respect |-> "Excellent"]]) >>] }

TenantInit ==
    /\ clock = 0
    /\ schools = << JtechSchool, WpsSchool >>
    /\ users = << SuperUser, WpsAdmin, WpsTeacher, WpsParent, WpsParent2 >>
    /\ \E held \in JtechHoldings :
          /\ students = held.students
          /\ classes = held.classes
          /\ attendance = held.attendance
          /\ gradebook = held.gradebook
          /\ social_skills = held.social_skills
          /\ report_templates = << build_default_template("WPS") >>
    /\ nextId = MaxId
    /\ tokens = {session(SuperUser, "JTECH"), session(SuperUser, "WPS"),
                 session(WpsAdmin, "WPS")}
    /\ inflight = [conn \in Connections |-> Idle]
    /\ resp = Response("startup", 200, "", << >>, << >>, << >>)

TenantNext ==
    \/ \E token \in tokens, student \in TenantStudents : create_student(token, student)
    \/ \E token \in tokens : get_students(token, NoneId)
    \/ \E token \in tokens, id \in TenantIds : get_student(token, id)
    \/ \E token \in tokens, id \in TenantIds, student \in TenantStudentUpdates :
          update_student(token, id, student)
    \/ \E token \in tokens, id \in TenantIds : delete_student(token, id)
    \/ \E token \in tokens, rows \in TenantRows :
          import_students_csv(token, FirstFreeId, "students.csv", rows)
    \/ \E token \in tokens, class_data \in TenantClasses : create_class(token, class_data)
    \/ \E token \in tokens : get_classes(token)
    \/ \E token \in tokens, id \in TenantIds : get_class(token, id)
    \/ \E token \in tokens, id \in TenantIds, class_data \in TenantClassUpdates :
          update_class(token, id, class_data)
    \/ \E token \in tokens, id \in TenantIds : delete_class(token, id)
    \/ \E token \in tokens, att \in TenantMarks : mark_attendance(token, att)
    \/ \E token \in tokens, data \in TenantBulks : mark_bulk_attendance(token, data)
    \/ \E token \in tokens : get_attendance(token, FirstFreeId)
    \/ \E token \in tokens, entry \in TenantEntries : save_gradebook(token, entry)
    \/ \E token \in tokens : get_gradebook(token, NoneId)
    \/ \E token \in tokens, id \in TenantIds : delete_gradebook(token, id)
    \/ \E token \in tokens, id \in TenantIds :
          get_student_report_card(token, id, "Term 1", "2025-2026")
    \/ \E token \in tokens, id \in TenantIds :
          get_class_report_cards(token, id, "Term 1", "2025-2026")
    \/ \E token \in tokens, entry \in TenantSkills : save_social_skills(token, entry)
    \/ \E token \in tokens :
          get_social_skills(token, FirstFreeId, "Term 1", "2025-2026")

TenantSpec == TenantInit /\ [][TenantNext]_vars

\* the school of the session a response was given to
session_school(r) == r.user[1].school_code

\* the stored documents a response carries
returned_docs(r) ==
    IF r.status # 200 \/ Len(r.body) = 0 THEN {}
    ELSE CASE r.op = "get_student_report_card" ->
                {r.body[1].student} \cup Docs(r.body[1].grades)
                    \cup Docs(r.body[1].class_info)
           [] r.op = "get_class_report_cards" ->
                {r.body[1].class_info}
                    \cup UNION {{card.student} \cup Docs(card.grades) :
                                   card \in Docs(r.body[1].report_cards)}
           [] r.op \in {"mark_bulk_attendance", "save_social_skills",
                        "import_students_csv"} -> {}
           [] OTHER -> Docs(r.body)

\* the attendance a report card counts is the session school's
counted_days(r) ==
    IF r.status # 200 \/ Len(r.body) = 0 THEN {}
    ELSE CASE r.op = "get_student_report_card" ->
                {<< r.body[1].student.id, r.body[1].attendance_summary.total_days >>}
           [] r.op = "get_class_report_cards" ->
                {<< card.student.id, card.attendance_summary.total_days >> :
                     card \in Docs(r.body[1].report_cards)}
           [] OTHER -> {}

ReadsOwnSchool ==
    Len(resp.user) > 0 =>
        /\ \A doc \in returned_docs(resp) : doc.school_code = session_school(resp)
        /\ \A counted \in counted_days(resp) :
              counted[2] = Len(find(attendance,
                                    [student_id |-> counted[1],
                                     school_code |-> session_school(resp)]))

\* the documents of a collection that belong to other schools than school_code
of_other_schools(coll, school_code) ==
    SelectSeq(coll, LAMBDA d : d.school_code # school_code)

WritesOwnSchool ==
    Len(resp'.user) > 0 =>
        \A school_code \in {session_school(resp')} :
            /\ of_other_schools(students', school_code)
                   = of_other_schools(students, school_code)
            /\ of_other_schools(classes', school_code)
                   = of_other_schools(classes, school_code)
            /\ of_other_schools(attendance', school_code)
                   = of_other_schools(attendance, school_code)
            /\ of_other_schools(gradebook', school_code)
                   = of_other_schools(gradebook, school_code)
            /\ of_other_schools(social_skills', school_code)
                   = of_other_schools(social_skills, school_code)

\* the collection a by-id request addresses
addressed(op) ==
    CASE op \in {"get_student", "update_student", "delete_student",
                 "get_student_report_card"} -> students
      [] op \in {"get_class", "update_class", "delete_class",
                 "get_class_report_cards"} -> classes
      [] op = "delete_gradebook" -> gradebook
      [] OTHER -> << >>

\* a by-id request that names a document of another school
names_foreign(r, coll) ==
    /\ Len(r.user) > 0
    /\ \E doc \in Docs(coll) :
          doc.id = r.req.id /\ doc.school_code # session_school(r)

ForeignIdNotFound ==
    \A coll \in {addressed(resp'.op)} :
        (Len(coll) > 0 /\ names_foreign(resp', coll)) => resp'.status = 404

\* C1: in a session of school S a request on students, classes, attendance,
\* gradebook or social skills returns and counts only documents of S, leaves
\* the documents of every other school as they were, and answers 404 when it
\* names by id a document of another school.
C1_TenantIsolation ==
    []ReadsOwnSchool /\ [][WritesOwnSchool /\ ForeignIdNotFound]_vars

\* an update of a JTECH student asked for in the WPS session, with another
\* first name than the student has, was answered 404
C1_Witness ==
    /\ resp.op = "update_student" /\ resp.status = 404
    /\ names_foreign(resp, students)
    /\ \E doc \in Docs(students) : doc.id = resp.req.id /\ doc.first_name # resp.req.data.first_name

(* ------------------- specification: parents --------------------------- *)
\* The administrator of WPS registers students and moves them between
\* parents; every session asks for students and report cards.
ParentStudents ==
    [first_name : {"Ann"}, last_name : {"Lee"}, class_id : {NoneId},
     parent_id : {NoneId, WpsParent.id, WpsParent2.id}]

ParentInit ==
    /\ Provisioned
    /\ tokens = {session(WpsAdmin, "WPS"), session(WpsParent, "WPS"),
                 session(WpsParent2, "WPS")}

ParentNext ==
    \/ \E token \in tokens, student \in ParentStudents : create_student(token, student)
    \/ \E token \in tokens, id \in FirstFreeId..MaxId, student \in ParentStudents :
          update_student(token, id, student)
    \/ \E token \in tokens : get_students(token, NoneId)
    \/ \E token \in tokens, id \in FirstFreeId..MaxId : get_student(token, id)
    \/ \E token \in tokens, id \in FirstFreeId..MaxId :
          get_student_report_card(token, id, "Term 1", "2025-2026")

ParentSpec == ParentInit /\ [][ParentNext]_vars

\* the student a get_student or get_student_report_card response carries
returned_student(r) ==
    IF r.op = "get_student" THEN r.body[1] ELSE r.body[1].student

\* C6: for a parent in a session of school S, get_student and
\* get_student_report_card on a student of S return the student when its
\* parent_id is the parent's user id and otherwise answer 403 "Access denied";
\* get_students returns the students of S whose parent_id is the parent's id.
C6_ParentSeesOwnChildren ==
    (Len(resp.user) > 0 /\ resp.user[1].role = PARENT) =>
        /\ resp.op \in {"get_student", "get_student_report_card"} =>
              \A student \in Docs(students) :
                  (student.id = resp.req.id
                       /\ student.school_code = session_school(resp)) =>
                      IF student.parent_id = resp.user[1].id
                      THEN resp.status = 200 /\ returned_student(resp) = student
                      ELSE resp.status = 403 /\ resp.detail = "Access denied"
        /\ resp.op = "get_students" =>
              /\ resp.status = 200
              /\ resp.body = SelectSeq(students, LAMBDA student :
                                 /\ student.school_code = session_school(resp)
                                 /\ student.parent_id = resp.user[1].id)

\* a parent who has a child in the school asked for another parent's child
\* and was denied
C6_Witness ==
    /\ resp.op = "get_student" /\ resp.status = 403 /\ resp.detail = "Access denied"
    /\ resp.user[1].role = PARENT
    /\ \E own, other \in Docs(students) :
          /\ own.parent_id = resp.user[1].id
          /\ other.id = resp.req.id
          /\ other.parent_id \notin {NoneId, resp.user[1].id}

(* ------------------- specification: logging in ------------------------ *)
\* The administrator of WPS holds a session; anyone logs in, accounts are
\* added, the superuser switches WPS off and on.
LoginCredentials ==
    [school_code : {"wps", "JTECH", "NPS"},
     username : {SUPERUSER_NAME, "new.teacher"},
     password : {"Xekleidoma@1", "pw.new"}]

NewUsers ==
    [username : {SUPERUSER_NAME, "new.teacher"}, role : {TEACHER},
     school_code : {"wps"}, permissions : {{}}, password : {"pw.new"}]

SchoolUpdates == [school_code : {"WPS"}, is_active : BOOLEAN]

LoginInit ==
    /\ Provisioned
    /\ tokens = {session(WpsAdmin, "WPS")}

LoginNext ==
    \/ \E credentials \in LoginCredentials : login(credentials)
    \/ \E token \in tokens : get_me(token)
    \/ \E token \in tokens, user_data \in NewUsers : create_user(token, user_data)
    \/ \E token \in tokens, school \in SchoolUpdates :
          update_school(token, WpsSchool.id, school)

LoginSpec == LoginInit /\ [][LoginNext]_vars

\* the login the last response answers was asked for an existing, active school
asked_active_school(r) ==
    \E school \in Docs(schools) :
        school.school_code = upper(r.req.school_code) /\ school.is_active

\* the superuser accounts whose username and password the login presented
superusers_presented(r) ==
    {user \in Docs(users) :
        /\ user.role = SUPERUSER
        /\ user.username = r.req.username
        /\ verify_password(r.req.password, user.password_hash)}

\* C7: a login with the username and the correct password of a superuser
\* account for an existing, active school C succeeds, and the token and the
\* user it returns carry C, the requested code in upper case.
C7_SuperuserEntersAnySchool ==
    (/\ resp.op = "login"
     /\ asked_active_school(resp)
     /\ superusers_presented(resp) # {}) =>
        /\ resp.status = 200
        /\ resp.body[1].access_token.school_code = upper(resp.req.school_code)
        /\ resp.body[1].user.school_code = upper(resp.req.school_code)

\* the accounts as provisioned are stored as they were
StoredAccountsKept ==
    SubSeq(users, 1, 5) = << SuperUser, WpsAdmin, WpsTeacher, WpsParent, WpsParent2 >>

\* a login or a get_me leaves the users collection as it was
ResolutionWritesNoUser ==
    resp'.op \in {"login", "get_me"} => users' = users

\* the principal of a request is the stored account under the token's school
PrincipalIsPerRequest ==
    (resp.op = "get_me" /\ resp.status = 200) =>
        \E user \in Docs(users) :
            /\ user.id = resp.req.sub
            /\ resp.user[1] = [user EXCEPT !.school_code = resp.req.school_code]

\* C8: login and get_current_user never write to the users collection; the
\* superuser's stored school_code and every other stored field stay as they
\* were, and the token's school_code shows only on the request's principal.
C8_LoginWritesNoUser ==
    /\ []StoredAccountsKept
    /\ []PrincipalIsPerRequest
    /\ [][ResolutionWritesNoUser]_vars

\* the superuser, logged into WPS, is answered as a user of WPS by get_me
\* while the stored account is the one of JTECH
C8_Witness ==
    /\ resp.op = "get_me" /\ resp.status = 200
    /\ resp.req.sub = SuperUser.id
    /\ resp.body[1].school_code = "WPS"
    /\ SuperUser \in Docs(users) /\ SuperUser.school_code = "JTECH"

\* the account a login logs in as: the one with the username in the requested
\* school, or without one the first superuser with the username
account_of(r) ==
    LET in_school == {user \in Docs(users) :
                         /\ user.username = r.req.username
                         /\ user.school_code = upper(r.req.school_code)}
        first_superuser ==
            {users[i] : i \in {i \in DOMAIN users :
                /\ users[i].username = r.req.username /\ users[i].role = SUPERUSER
                /\ \A j \in 1..(i - 1) :
                      ~(users[j].username = r.req.username
                            /\ users[j].role = SUPERUSER)}}
    IN  IF in_school # {} THEN in_school ELSE first_superuser

\* C9: login issues a token only when the school of the requested code, in
\* upper case, exists and is active and the password verifies against the
\* hash of the account it logs in as; otherwise it answers 401 and issues no
\* token, with "Invalid school code" when the school is missing or inactive.
C9_LoginIssuesToken ==
    resp.op = "login" =>
        /\ resp.status = 200 <=>
              /\ asked_active_school(resp)
              /\ \E user \in account_of(resp) :
                    verify_password(resp.req.password, user.password_hash)
        /\ resp.status = 200 =>
              /\ Len(resp.body) = 1
              /\ \E user \in account_of(resp) :
                    resp.body[1].access_token.sub = user.id
        /\ resp.status # 200 =>
              /\ resp.status = 401
              /\ Len(resp.body) = 0
              /\ ~asked_active_school(resp) <=> resp.detail = "Invalid school code"

\* the superuser's own credentials were turned down for WPS, which exists
\* but is switched off
C9_Witness ==
    /\ resp.op = "login" /\ resp.status = 401
    /\ resp.detail = "Invalid school code"
    /\ resp.req.school_code = "wps"
    /\ superusers_presented(resp) # {}
    /\ \E school \in Docs(schools) : school.school_code = "WPS" /\ ~school.is_active

(* ------------------- specification: the guards ------------------------ *)
\* Sessions of the superuser, the administrator, the teacher and a parent of
\* WPS, and a token signed with another key; the teacher's role and
\* permissions are changed, the teacher is deleted, time passes.
ForgedToken == [session(WpsTeacher, "WPS") EXCEPT !.sig = "forged"]

RoleUpdates ==
    {[role |-> TEACHER, permissions |-> << {"view_reports"} >>],
     [role |-> ADMIN, permissions |-> << >>],
     [role |-> PARENT, permissions |-> << {"manage_students"} >>]}

GuardInit ==
    /\ Provisioned
    /\ tokens = {session(SuperUser, "WPS"), session(WpsAdmin, "WPS"),
                 session(WpsTeacher, "WPS"), session(WpsParent, "WPS"), ForgedToken}

GuardNext ==
    \/ \E token \in tokens : get_me(token)
    \/ \E token \in tokens : get_users(token)
    \/ \E token \in tokens, role_data \in RoleUpdates :
          update_user_role(token, WpsTeacher.id, role_data)
    \/ \E token \in tokens : delete_user(token, WpsTeacher.id)
    \/ \E token \in tokens, student \in TenantStudents : create_student(token, student)
    \/ \E token \in tokens : delete_student(token, FirstFreeId)
    \/ \E token \in tokens :
          import_students_csv(token, NoneId, "students.csv",
                              << [first_name |-> "Cy", last_name |-> "Lee"] >>)
    \/ Tick(MaxAuthClock)

GuardSpec == GuardInit /\ [][GuardNext]_vars

\* the permission an operation's require_permission names
permission_of(op) ==
    CASE op \in {"create_student", "delete_student"} -> {"manage_students"}
      [] OTHER -> {}

\* the roles an operation's require_roles names
roles_of(op) ==
    CASE op \in {"get_users", "update_user_role", "delete_user"} -> {{ADMIN}}
      [] op = "import_students_csv" -> {{SUPERUSER, ADMIN}}
      [] OTHER -> {}

\* the response is the refusal of a guard
refused_by_guard(r) ==
    /\ r.status = 403
    /\ \/ r.detail = "Insufficient permissions"
       \/ \E permission \in ALL_PERMISSIONS : r.detail = permission_denied(permission)

\* a resolved principal is refused by the guard exactly when it is no
\* superuser and lacks the permission, or has a role outside the allowed ones
GuardAdmits ==
    Len(resp.user) > 0 =>
        /\ \A permission \in permission_of(resp.op) :
              refused_by_guard(resp) <=>
                  /\ resp.user[1].role # SUPERUSER
                  /\ permission \notin resp.user[1].permissions
        /\ \A allowed_roles \in roles_of(resp.op) :
              refused_by_guard(resp) <=>
                  /\ resp.user[1].role # SUPERUSER
                  /\ resp.user[1].role \notin allowed_roles
        /\ refused_by_guard(resp) => Len(resp.body) = 0

\* a refused request writes nothing
RefusalWritesNothing ==
    refused_by_guard(resp') => UNCHANGED <<stores, nextId>>

\* C5: on an operation guarded by require_permission(P) or require_roles(R) a
\* superuser is always admitted, any other principal is admitted by
\* require_permission(P) exactly when P is among its permissions and by
\* require_roles(R) exactly when its role is in R; a refused request is
\* answered 403 and writes nothing to the store.
C5_GuardsAdmit == []GuardAdmits /\ [][RefusalWritesNothing]_vars

\* the teacher, turned into a parent who holds manage_students, passed
\* require_permission("manage_students")
C5_Witness ==
    /\ resp.op = "create_student" /\ resp.status = 200
    /\ resp.user[1].role = PARENT
    /\ resp.user[1].permissions = {"manage_students"}

\* the answer get_current_user gives to a token at the time of the request
ResolutionReasons ==
    (resp'.op = "get_me" /\ clock' = clock) =>
        \A token \in {resp'.req} :
            /\ token.sig # "valid" =>
                  resp'.status = 401 /\ resp'.detail = "Invalid token"
            /\ (token.sig = "valid" /\ token.exp < clock) =>
                  resp'.status = 401 /\ resp'.detail = "Token expired"
            /\ (token.sig = "valid" /\ token.exp > clock
                    /\ \A user \in Docs(users) : user.id # token.sub) =>
                  resp'.status = 401 /\ resp'.detail = "User not found"
            /\ (token.sig = "valid" /\ token.exp > clock
                    /\ \E user \in Docs(users) : user.id = token.sub) =>
                  resp'.status = 200

\* an unresolved request is answered 401 with one of the three reasons, a
\* resolved principal never is
ResolvedNever401 ==
    /\ resp.status = 401 =>
          /\ Len(resp.user) = 0
          /\ resp.op = "login"
                \/ resp.detail \in {"Invalid token", "Token expired", "User not found"}
    /\ (Len(resp.user) > 0 /\ (permission_of(resp.op) # {} \/ roles_of(resp.op) # {})
            /\ \/ \E permission \in permission_of(resp.op) :
                     /\ resp.user[1].role # SUPERUSER
                     /\ permission \notin resp.user[1].permissions
               \/ \E allowed_roles \in roles_of(resp.op) :
                     /\ resp.user[1].role # SUPERUSER
                     /\ resp.user[1].role \notin allowed_roles) =>
          resp.status = 403

\* C10: token resolution fails with a 401 whose reason tells the cause: a
\* badly signed token gets "Invalid token", a well signed token past its expiry
\* "Token expired", a well signed, unexpired token whose user id is not in the
\* store "User not found"; a resolved principal lacking the required role or
\* permission gets 403, never 401.
C10_ResolutionReasons == []ResolvedNever401 /\ [][ResolutionReasons]_vars

\* the teacher's token, still unexpired, after the teacher was deleted
C10_Witness ==
    /\ resp.op = "get_me" /\ resp.status = 401 /\ resp.detail = "User not found"
    /\ resp.req.sub = WpsTeacher.id
    /\ resp.req.exp > clock
    /\ \A user \in Docs(users) : user.id # WpsTeacher.id

(* ------------- specification: administrators and the superuser -------- *)
\* an administrator the superuser created in the system school
JtechAdmin ==
    user_doc(FirstFreeId, "jtech.admin", ADMIN, "JTECH", default_permissions(ADMIN),
             "pw.jadmin")

\* UserCreate bodies: a teacher and a superuser
PrivilegeUsers ==
    [username : {"new.teacher"}, role : {TEACHER, SUPERUSER}, school_code : {"jtech"},
     permissions : {{}}, password : {"pw.new"}]

\* RoleUpdate bodies: the superuser role, and a teacher with one permission
PrivilegeRoles ==
    {[role |-> SUPERUSER, permissions |-> << >>],
     [role |-> TEACHER, permissions |-> << {"view_reports"} >>]}

\* ResetCredentials bodies: a new username, or a new password
PrivilegeCredentials ==
    {[username |-> "root", password |-> NoneStr],
     [username |-> NoneStr, password |-> "pw.reset"]}

\* rows of a teachers file: one row that carries the superuser's username
PrivilegeRows == { << [username |-> SUPERUSER_NAME, name |-> "Shadow"] >> }

PrivilegeTargets == {SuperUser.id, WpsTeacher.id, JtechAdmin.id}

\* the deployment with the second administrator; only administrators hold
\* sessions
PrivilegeInit ==
    /\ schools = << JtechSchool, WpsSchool >>
    /\ users = << SuperUser, WpsAdmin, WpsTeacher, JtechAdmin >>
    /\ students = << >>
    /\ classes = << >>
    /\ attendance = << >>
    /\ gradebook = << >>
    /\ social_skills = << >>
    /\ report_templates = << build_default_template("WPS") >>
    /\ clock = 0
    /\ nextId = FirstFreeId + 1
    /\ inflight = [conn \in Connections |-> Idle]
    /\ resp = Response("startup", 200, "", << >>, << >>, << >>)
    /\ tokens = {session(JtechAdmin, "JTECH"), session(WpsAdmin, "WPS")}

PrivilegeNext ==
    \/ \E token \in tokens, user_data \in PrivilegeUsers : create_user(token, user_data)
    \/ \E token \in tokens, user_id \in PrivilegeTargets, role_data \in PrivilegeRoles :
          update_user_role(token, user_id, role_data)
    \/ \E token \in tokens, user_id \in PrivilegeTargets,
          credentials \in PrivilegeCredentials :
          reset_user_credentials(token, user_id, credentials)
    \/ \E token \in tokens, user_id \in PrivilegeTargets : delete_user(token, user_id)
    \/ \E token \in tokens, rows \in PrivilegeRows :
          import_teachers_csv(token, "teachers.csv", rows)

PrivilegeSpec == PrivilegeInit /\ [][PrivilegeNext]_vars

\* the accounts whose stored role is superuser
superuser_accounts == find(users, [role |-> SUPERUSER])

\* C11: whatever administrators request of create_user, update_user_role,
\* reset_user_credentials, delete_user and import_teachers_csv, the accounts
\* with the superuser role stay exactly the one there was, with its username,
\* password hash, role and permissions: none is created, promoted, changed
\* or removed
C11_SuperuserOutOfReach == superuser_accounts = << SuperUser >>

\* an administrator of the superuser's own school asked for new credentials
\* of the superuser and was refused
C11_Witness ==
    /\ resp.op = "reset_user_credentials"
    /\ resp.req.id = SuperUser.id
    /\ resp.user[1].school_code = SuperUser.school_code
    /\ resp.status = 403
    /\ resp.detail = "Only superuser can reset superuser credentials"

(* ------------------- specification: the accounts ---------------------- *)
\* UserCreate bodies: a username WPS has and one no school has, for WPS or JTECH
AccountUsers ==
    [username : {WpsTeacher.username, "new.teacher"}, role : {TEACHER},
     school_code : {"wps", "jtech"}, permissions : {{}}, password : {"pw.new"}]

\* ResetCredentials bodies: the administrator's username, a new password
AccountCredentials ==
    {[username |-> WpsAdmin.username, password |-> NoneStr],
     [username |-> NoneStr, password |-> "pw.reset"]}

\* teachers files: a row whose username WPS has, and the same new row twice
AccountRows ==
    { << [username |-> WpsTeacher.username, name |-> "Teacher"] >>,
      << [username |-> "new.teacher", name |-> "New"],
         [username |-> "new.teacher", name |-> "New", password |-> "pw.row"] >> }

AccountTargets == {SuperUser.id, WpsAdmin.id, WpsTeacher.id}

AccountsInit ==
    /\ schools = << JtechSchool, WpsSchool >>
    /\ users = << SuperUser, WpsAdmin, WpsTeacher >>
    /\ students = << >>
    /\ classes = << >>
    /\ attendance = << >>
    /\ gradebook = << >>
    /\ social_skills = << >>
    /\ report_templates = << build_default_template("WPS") >>
    /\ clock = 0
    /\ nextId = FirstFreeId + 1
    /\ inflight = [conn \in Connections |-> Idle]
    /\ resp = Response("startup", 200, "", << >>, << >>, << >>)
    /\ tokens = {session(SuperUser, "JTECH"), session(WpsAdmin, "WPS")}

AccountsNext ==
    \/ \E token \in tokens, user_data \in AccountUsers : create_user(token, user_data)
    \/ \E token \in tokens, credentials \in AccountCredentials :
          reset_user_credentials(token, WpsTeacher.id, credentials)
    \/ \E token \in tokens, rows \in AccountRows :
          import_teachers_csv(token, "teachers.csv", rows)
    \/ \E token \in tokens, user_id \in AccountTargets : delete_user(token, user_id)

AccountsSpec == AccountsInit /\ [][AccountsNext]_vars

\* the account a request names by resp'.req.id, looked up before the request
named_account == find_one(users, [id |-> resp'.req.id])

\* C12: delete_user of an account whose role is superuser, by anyone, and of
\* the caller's own account, is answered with an error and leaves the users
\* collection as it was
C12_DeleteSparesSuperuserAndSelf ==
    [][(/\ resp'.op = "delete_user"
        /\ Len(named_account) > 0
        /\ \/ named_account[1].role = SUPERUSER
           \/ /\ Len(resp'.user) > 0
              /\ named_account[1].id = resp'.user[1].id)
       => /\ resp'.status >= 400
          /\ users' = users]_vars

\* the superuser asked to delete the superuser account, its own, and was
\* refused
C12_Witness ==
    /\ resp.op = "delete_user"
    /\ resp.req.id = SuperUser.id
    /\ resp.user[1].id = SuperUser.id
    /\ resp.status = 403
    /\ resp.detail = "Cannot delete superuser account"

\* the key an account is unique by
account_key(u) == << u.username, u.school_code >>

\* no two accounts share (username, school_code)
UniqueAccounts ==
    \A i, j \in DOMAIN users : i # j => account_key(users[i]) # account_key(users[j])

\* the school create_user stores: the caller's, or the body's for a superuser
create_user_school(r) ==
    IF r.user[1].role # SUPERUSER THEN r.user[1].school_code
    ELSE upper(r.req.school_code)

\* a create_user for a username its school has is refused, and one for a
\* username only another school has is served with a new account
CreateUserPerSchool ==
    [][(resp'.op = "create_user" /\ Len(resp'.user) > 0)
       => \A key \in {<< resp'.req.username, create_user_school(resp') >>} :
           IF \E u \in Docs(users) : account_key(u) = key
           THEN resp'.status = 400 /\ users' = users
           ELSE /\ resp'.status = 200
                /\ Len(users') = Len(users) + 1
                /\ SubSeq(users', 1, Len(users)) = users
                /\ account_key(users'[Len(users')]) = key]_vars

\* a reset to a username another account of the account's school has is
\* refused
ResetKeepsUnique ==
    [][(/\ resp'.op = "reset_user_credentials"
        /\ Len(named_account) > 0
        /\ resp'.req.data.username # NoneStr
        /\ \E u \in Docs(users) :
              /\ u.id # resp'.req.id
              /\ account_key(u) = << resp'.req.data.username,
                                     named_account[1].school_code >>)
       => /\ resp'.status >= 400
          /\ users' = users]_vars

\* the rows of an import that carry a username the session school has, or
\* that an earlier row had, are reported and add no account
ImportSkipsDuplicates ==
    [][(resp'.op = "import_teachers_csv" /\ resp'.status = 200)
       => /\ Len(users') = Len(users) + resp'.body[1].imported
          /\ SubSeq(users', 1, Len(users)) = users
          /\ \A n \in DOMAIN resp'.req.rows :
                (\/ \E u \in Docs(users) :
                       account_key(u) = << resp'.req.rows[n].username,
                                           resp'.user[1].school_code >>
                 \/ \E m \in 1..(n - 1) :
                       resp'.req.rows[m].username = resp'.req.rows[n].username)
                => \E k \in DOMAIN resp'.body[1].errors :
                       resp'.body[1].errors[k] = n + 1]_vars

\* C13: after any sequence of create_user, reset_user_credentials and
\* import_teachers_csv requests served one after another, no two accounts
\* share (username, school_code); a duplicate within a school is refused and
\* leaves the users as they were, and a username another school has is
\* accepted as a second account
C13_UsernameUniquePerSchool ==
    /\ []UniqueAccounts
    /\ CreateUserPerSchool
    /\ ResetKeepsUnique
    /\ ImportSkipsDuplicates

\* two accounts of two schools carry one username, the second just created
C13_Witness ==
    /\ resp.op = "create_user"
    /\ resp.status = 200
    /\ \E i, j \in DOMAIN users :
          /\ users[i].username = users[j].username
          /\ users[i].school_code # users[j].school_code
          /\ users[j].id = resp.body[1].id

(* ------------------- specification: the schools ----------------------- *)
\* on_event("startup"): the system school and the superuser, where missing
startup ==
    \E jtech_school \in {find_one(schools, [school_code |-> "JTECH"])} :
    \E superuser \in {find_one(users, [username |-> SUPERUSER_NAME,
                                       school_code |-> "JTECH"])} :
    \E school_id \in {nextId} :
    \E user_id \in {IF Len(jtech_school) = 0 THEN nextId + 1 ELSE nextId} :
        /\ schools' = IF Len(jtech_school) > 0 THEN schools
                      ELSE insert_one(schools, school_doc(school_id, "JTECH", TRUE))
        /\ users' = IF Len(superuser) > 0 THEN users
                    ELSE insert_one(users,
                             user_doc(user_id, SUPERUSER_NAME, SUPERUSER, "JTECH",
                                      ALL_PERMISSIONS, "Xekleidoma@1"))
        /\ nextId' = IF Len(superuser) > 0 THEN user_id ELSE user_id + 1
        /\ nextId' <= MaxId + 1
        /\ resp' = Response("startup", 200, "", << >>, << >>, << >>)
        /\ UNCHANGED <<students, classes, attendance, gradebook, social_skills,
                       report_templates, tokens, clock, inflight>>

\* SchoolCreate bodies: a code no school has in two spellings, and WPS's
NewSchools == [school_code : {"nps", "Nps", "wps"}, is_active : {TRUE}]

\* SchoolCreate bodies of updates: another code, another activity
SchoolChanges == [school_code : {"NPS", "wps"}, is_active : BOOLEAN]

SchoolTargets == {JtechSchool.id, WpsSchool.id, FirstFreeId}

SchoolsInit ==
    /\ Provisioned
    /\ tokens = {session(SuperUser, "JTECH"), session(WpsAdmin, "WPS")}

SchoolsNext ==
    \/ startup
    \/ \E token \in tokens, school \in NewSchools : create_school(token, school)
    \/ \E token \in tokens, school_id \in SchoolTargets, school \in SchoolChanges :
          update_school(token, school_id, school)
    \/ \E token \in tokens, school_id \in SchoolTargets :
          delete_school(token, school_id)

SchoolsSpec == SchoolsInit /\ [][SchoolsNext]_vars

\* no two schools share a school_code
UniqueSchoolCodes ==
    \A i, j \in DOMAIN schools :
        i # j => schools[i].school_code # schools[j].school_code

\* every stored school_code is its own upper case
UpperCaseCodes == \A s \in Docs(schools) : upper(s.school_code) = s.school_code

\* a school that stays keeps its code, whatever the request
CodeImmutable ==
    [][\A old \in Docs(schools), new \in Docs(schools') :
          old.id = new.id => new.school_code = old.school_code]_vars

\* update_school answers with the code the school had, not the body's
UpdateKeepsCode ==
    [][(resp'.op = "update_school" /\ resp'.status = 200)
       => /\ resp'.body[1].school_code
                = find_one(schools, [id |-> resp'.req.id])[1].school_code
          /\ resp'.body[1].is_active = resp'.req.data.is_active]_vars

\* create_school by the superuser for a code that, ignoring case, a school
\* has is refused and stores nothing
CreateRejectsExisting ==
    [][(/\ resp'.op = "create_school"
        /\ Len(resp'.user) > 0
        /\ resp'.user[1].role = SUPERUSER
        /\ \E s \in Docs(schools) :
              upper(s.school_code) = upper(resp'.req.school_code))
       => /\ resp'.status = 400
          /\ resp'.detail = "School code already exists"
          /\ schools' = schools]_vars

\* C14: after any sequence of create_school, update_school and delete_school
\* requests served one after another, no two schools share a school_code,
\* every stored code is upper case and every school has the code it was
\* created with: update_school keeps the stored code whatever its body says and
\* create_school refuses a code that equals an existing one ignoring case
C14_SchoolCodes ==
    /\ [](UniqueSchoolCodes /\ UpperCaseCodes)
    /\ CodeImmutable
    /\ UpdateKeepsCode
    /\ CreateRejectsExisting

\* a school created from a lower-case code was updated with another code in
\* the body and kept its own
C14_Witness ==
    /\ resp.op = "update_school"
    /\ resp.status = 200
    /\ resp.req.id = FirstFreeId
    /\ resp.body[1].school_code = "NPS"
    /\ resp.req.data.school_code = "wps"

\* C15: delete_school of the school whose code is JTECH is answered 400
\* 'Cannot delete system school' to the superuser and deletes nothing for
\* anyone, so a school with code JTECH exists in every state after startup
C15_SystemSchoolStays ==
    /\ [](\E s \in Docs(schools) : s.school_code = "JTECH")
    /\ [][(/\ resp'.op = "delete_school"
           /\ \E s \in Docs(schools) :
                 s.id = resp'.req.id /\ s.school_code = "JTECH")
          => /\ schools' = schools
             /\ resp'.status >= 400
             /\ (Len(resp'.user) > 0 /\ resp'.user[1].role = SUPERUSER)
                => /\ resp'.status = 400
                   /\ resp'.detail = "Cannot delete system school"]_vars

\* the superuser asked to delete the system school and was refused
C15_Witness ==
    /\ resp.op = "delete_school"
    /\ resp.req.id = JtechSchool.id
    /\ resp.status = 400
    /\ resp.detail = "Cannot delete system school"

(* ------------------- specification: the bands ------------------------- *)
\* scores in hundredths of a mark: every tenth of a mark up to MaxScore
Scores == {10 * tenth : tenth \in 0..(10 * MaxScore)}

\* a score waits to be banded
BandingInit ==
    /\ schools = << JtechSchool, WpsSchool >>
    /\ users = << SuperUser, WpsAdmin, WpsTeacher, WpsParent, WpsParent2 >>
    /\ students = << >>
    /\ classes = << >>
    /\ attendance = << >>
    /\ gradebook = << >>
    /\ social_skills = << >>
    /\ report_templates = << build_default_template("WPS") >>
    /\ clock = 0
    /\ nextId = FirstFreeId
    /\ inflight = [conn \in Connections |-> Idle]
    /\ tokens = {}
    /\ \E score \in Scores :
          resp = Response("score", 200, "", << >>, << >>, [score |-> score])

\* the general scale applied to the score
band_general ==
    /\ resp' = Response("get_grade_info", 200, "",
                        << get_grade_info(resp.req.score, 100) >>, << >>, resp.req)
    /\ UNCHANGED <<stores, tokens, clock, nextId, inflight>>

\* the institution's scale applied to the score
band_mhps ==
    /\ resp' = Response("get_mhps_grade", 200, "",
                        << get_mhps_grade(resp.req.score) >>, << >>, resp.req)
    /\ UNCHANGED <<stores, tokens, clock, nextId, inflight>>

BandingNext == band_general \/ band_mhps

BandingSpec == BandingInit /\ [][BandingNext]_vars

\* the score banded is n + 0.5 marks for an integer n in 0..99
banded_half == resp.op # "score" /\ resp.req.score % 100 = 50 /\ resp.req.score < 10000

\* C16: a score of n + 0.5, n in 0..99, is banded as n + 1 on both scales
\* (rounding to the nearest integer, a half going up)
C16_HalfRoundsUp ==
    banded_half
    => \A up \in {resp.req.score \div 100 + 1} :
          /\ resp.op = "get_grade_info" => resp.body[1] = get_grade_info(up, 1)
          /\ resp.op = "get_mhps_grade" => resp.body[1] = get_mhps_grade(100 * up)

\* the bands of a scale that hold the mark
bands_holding(scale, mark) ==
    {i \in DOMAIN scale : scale[i].min <= mark /\ mark <= scale[i].max}

\* the score banded, rounded as the banding rounds it
banded_mark == round(resp.req.score, 100)

\* the label the banding answered with is the label of the one band that
\* holds the rounded score
OneBand(scale) ==
    /\ Cardinality(bands_holding(scale, banded_mark)) = 1
    /\ \A i \in bands_holding(scale, banded_mark) :
          resp.body[1].grade = scale[i].grade

\* the label the general scale gives the score, where the score is the one
\* banded
labelled(score, grade) ==
    (resp.op = "get_grade_info" /\ resp.req.score = score)
    => resp.body[1].grade = grade

\* C17: on both scales (11 and 8 bands) every score in [0, 100] is banded by
\* exactly one band, the one holding its rounded value, so the fallback is
\* not taken; on the general scale 89.2 is A, 91.9 is A+, 79.5 is A- and
\* 74.4 is B-
C17_ExactlyOneBand ==
    /\ Len(GRADING_SCHEME) = 11 /\ Len(MHPS_GRADE_SCALE) = 8
    /\ (resp.op = "get_grade_info" /\ resp.req.score <= 10000)
       => OneBand(GRADING_SCHEME)
    /\ (resp.op = "get_mhps_grade" /\ resp.req.score <= 10000)
       => OneBand(MHPS_GRADE_SCALE)
    /\ labelled(8920, "A") /\ labelled(9190, "A+")
    /\ labelled(7950, "A-") /\ labelled(7440, "B-")

\* 79.5 banded on the general scale
C17_Witness ==
    /\ resp.op = "get_grade_info"
    /\ resp.req.score = 7950
    /\ resp.body[1].grade = "A-"

(* ------------------- specification: the scores ------------------------ *)
\* subjects of the requests: all six components at 100, a single component of
\* 0, five components with a submitted score beside them, no score at all, and
\* three plain scores
ScoringSubjects ==
    { weighted_subject("Mathematics", 1000, 10000, 10000, 10000, 10000, 10000, 10000),
      weighted_subject("Science", 7700, 0, NoneNum, NoneNum, NoneNum, NoneNum, NoneNum),
      weighted_subject("English", 1000, 8000, NoneNum, 9000, 7000, 8500, 9500),
      simple_subject("Art", NoneNum),
      simple_subject("Music", 8950) }

\* the subject lists: none, one or two of the subjects in either order, and
\* three plain scores whose mean is 89.4967
ScoringLists ==
    {<< >>}
    \cup {<< a >> : a \in ScoringSubjects}
    \cup {<< a, b >> : a \in ScoringSubjects, b \in ScoringSubjects}
    \cup {<< simple_subject("Art", 8949), simple_subject("Music", 8950),
             simple_subject("Drama", 8950) >>}

ScoringEntries ==
    [student_id : {1}, class_id : {NoneId}, term : {"Term 1"},
     academic_year : {"2025-2026"}, subjects : ScoringLists]

ScoringInit ==
    /\ Provisioned
    /\ tokens = {session(WpsTeacher, "WPS"), session(WpsAdmin, "WPS")}

ScoringNext ==
    \/ \E token \in tokens, entry \in ScoringEntries : save_gradebook(token, entry)
    \/ Tick(MaxClock)

ScoringSpec == ScoringInit /\ [][ScoringNext]_vars

\* the entry the last save stored, as the collection holds it
stored_entry == find_one(gradebook, [id |-> resp.body[1].id])[1]

\* a component of a subject, null taken as 0
component(x) == IF x = NoneNum THEN 0 ELSE x

\* 100 times the weighted sum of a subject's components, in hundredths
weighted_sum(subj) ==
    5 * component(subj.homework) + 5 * component(subj.groupWork)
    + 10 * component(subj.project) + 10 * component(subj.quiz)
    + 30 * component(subj.midTerm) + 40 * component(subj.endOfTerm)

\* value (in hundredths) is num / den rounded to 2 decimals
is_rounded(value, num, den) ==
    /\ 2 * (den * value - num) <= den
    /\ 2 * (num - den * value) <= den

\* some component of the subject is not null
any_component(subj) ==
    \E f \in {"homework", "groupWork", "project", "quiz", "midTerm", "endOfTerm"} :
        subj[f] # NoneNum

\* the score save_gradebook is to store for a subject
ScoreOfSubject(subj, stored) ==
    IF any_component(subj)
    THEN is_rounded(stored.score, weighted_sum(subj), 100)
    ELSE stored.score = IF subj.score = NoneNum THEN 0 ELSE subj.score

\* C18: each subject of a save_gradebook request is scored on its own: with
\* a component that is not null, by 0.05 homework + 0.05 groupWork + 0.10
\* project + 0.10 quiz + 0.30 midTerm + 0.40 endOfTerm, null components as 0,
\* rounded to 2 decimals (six times 100 gives 100.00), whatever score was
\* submitted; with all six null, by the submitted score, 0 when it is null
C18_SubjectScores ==
    (resp.op = "save_gradebook" /\ resp.status = 200)
    => /\ Len(stored_entry.subjects) = Len(resp.req.subjects)
       /\ resp.body[1].subjects = stored_entry.subjects
       /\ \A i \in DOMAIN resp.req.subjects :
             /\ ScoreOfSubject(resp.req.subjects[i], stored_entry.subjects[i])
             /\ weighted_sum(resp.req.subjects[i]) = 100 * 10000
                => stored_entry.subjects[i].score = 10000

\* an entry of two subjects, the first scored from its five components
\* and not from the score submitted with them, the second from its score
C18_Witness ==
    /\ resp.op = "save_gradebook" /\ resp.status = 200
    /\ Len(resp.req.subjects) = 2
    /\ resp.req.subjects[1].subject = "English"
    /\ resp.req.subjects[1].score = 1000
    /\ stored_entry.subjects[1].score = 8350
    /\ resp.req.subjects[2].subject = "Music"
    /\ stored_entry.subjects[2].score = 8950

\* C19: every entry save_gradebook stores has as overall_score the mean of
\* its stored subject scores rounded to 2 decimals (0 without subjects), and
\* as overall_grade, overall_points and overall_domain the band
\* get_grade_info gives that stored overall_score
C19_OverallBandOfStoredScore ==
    (resp.op = "save_gradebook" /\ resp.status = 200)
    => \A e \in {stored_entry} :
          /\ IF Len(e.subjects) = 0 THEN e.overall_score = 0
             ELSE is_rounded(e.overall_score, sum_scores(e.subjects),
                             Len(e.subjects))
          /\ [grade |-> e.overall_grade, domain |-> e.overall_domain,
              points |-> e.overall_points]
                = get_grade_info(e.overall_score, 100)

(* ------------------- specification: the class ranking ----------------- *)
\* a class of WPS and its three students, in the order they were created
RankedClass ==
    [id |-> FirstFreeId, school_code |-> "WPS", created_by |-> WpsTeacher.id,
     created_at |-> 0, name |-> "1A", teacher_id |-> WpsTeacher.id]

ranked_student(n, first_name) ==
    [id |-> FirstFreeId + n, school_code |-> "WPS", created_at |-> 0,
     updated_at |-> 0, first_name |-> first_name, last_name |-> "Lee",
     class_id |-> RankedClass.id, parent_id |-> NoneId]

RankedStudents ==
    << ranked_student(1, "Ann"), ranked_student(2, "Bob"), ranked_student(3, "Cy") >>

\* the GradebookEntry that gives a student one subject with the score
ranked_entry(student_id, score) ==
    [student_id |-> student_id, class_id |-> RankedClass.id, term |-> "Term 1",
     academic_year |-> "2025-2026",
     subjects |-> << simple_subject("Mathematics", score) >>]

RankedScores == {7000, 9500}

RankingEntries ==
    {ranked_entry(RankedStudents[n].id, score) : n \in 1..3, score \in RankedScores}

RECURSIVE saved_entries(_, _)
\* the entries the teacher saved before: for each student with a score, the
\* document save_gradebook built
saved_entries(scores, n) ==
    IF n = 0 THEN << >>
    ELSE IF scores[n] = NoneNum THEN saved_entries(scores, n - 1)
    ELSE Append(saved_entries(scores, n - 1),
                set_fields(gradebook_doc(ranked_entry(RankedStudents[n].id,
                                                      scores[n]), WpsTeacher),
                           [id |-> FirstFreeId + 3 + n, created_at |-> 0]))

\* every student of the class has no entry, or one of the two scores
RankingInit ==
    /\ schools = << JtechSchool, WpsSchool >>
    /\ users = << SuperUser, WpsAdmin, WpsTeacher, WpsParent, WpsParent2 >>
    /\ students = RankedStudents
    /\ classes = << RankedClass >>
    /\ attendance = << >>
    /\ clock = 0
    /\ \E scores \in [1..3 -> RankedScores \cup {NoneNum}] :
          gradebook = saved_entries(scores, 3)
    /\ social_skills = << >>
    /\ report_templates = << build_default_template("WPS") >>
    /\ nextId = FirstFreeId + 7
    /\ inflight = [conn \in Connections |-> Idle]
    /\ resp = Response("startup", 200, "", << >>, << >>, << >>)
    /\ tokens = {session(WpsTeacher, "WPS"), session(WpsParent, "WPS")}

RankingNext ==
    \/ \E token \in tokens, entry \in RankingEntries : save_gradebook(token, entry)
    \/ \E token \in tokens :
          get_class_report_cards(token, RankedClass.id, "Term 1", "2025-2026")

RankingSpec == RankingInit /\ [][RankingNext]_vars

\* the students of the class in the order the query returns them
fetched == find(students, [class_id |-> resp.req.id,
                           school_code |-> resp.user[1].school_code])

\* the overall_score the gradebook holds for a student, 0 without an entry
overall_of(student_id) ==
    LET entry == find_one(gradebook, term_query(student_id, resp.req.term,
                                                resp.req.academic_year,
                                                resp.user[1]))
    IN  IF Len(entry) > 0 THEN entry[1].overall_score ELSE 0

\* the position the result gives the n-th fetched student
position_of(n) ==
    LET cards == resp.body[1].report_cards
    IN  cards[CHOOSE i \in DOMAIN cards : cards[i].student.id = fetched[n].id].position

LookupStudent ==
    [id |-> FirstFreeId + 1, school_code |-> "JTECH", created_at |-> 0,
     updated_at |-> 0, first_name |-> "Ann", last_name |-> "Lee",
     class_id |-> FirstFreeId + 2, parent_id |-> NoneId]

LookupClass ==
    [id |-> FirstFreeId + 2, school_code |-> "JTECH", created_by |-> JtechAdmin.id,
     created_at |-> 0, name |-> "1A", teacher_id |-> NoneId]

LookupEntry ==
    [student_id |-> LookupStudent.id, class_id |-> LookupClass.id,
     term |-> "Term 1", academic_year |-> "2025-2026",
     subjects |-> << simple_subject("Mathematics", 8950) >>]

\* an id no document has
AbsentId == FirstFreeId + 4

LookupStudentUpdates ==
    [first_name : {"Bob"}, last_name : {"Lee"}, class_id : {NoneId},
     parent_id : {NoneId}]

LookupClassUpdates == [name : {"1B"}, teacher_id : {NoneId}]

LookupRoles == {[role |-> TEACHER, permissions |-> << >>]}

LookupCredentials == {[username |-> NoneStr, password |-> "pw.reset"]}

LookupInit ==
    /\ schools = << JtechSchool, WpsSchool >>
    /\ users = << SuperUser, WpsAdmin, WpsTeacher, WpsParent, JtechAdmin >>
    /\ students = << LookupStudent >>
    /\ classes = << LookupClass >>
    /\ attendance = << >>
    /\ clock = 0
    /\ gradebook = << set_fields(gradebook_doc(LookupEntry, JtechAdmin),
                                 [id |-> FirstFreeId + 3, created_at |-> 0]) >>
    /\ social_skills = << >>
    /\ report_templates = << build_default_template("WPS") >>
    /\ nextId = FirstFreeId + 5
    /\ inflight = [conn \in Connections |-> Idle]
    /\ resp = Response("startup", 200, "", << >>, << >>, << >>)
    /\ tokens = {session(WpsAdmin, "WPS"), session(WpsTeacher, "WPS"),
                 session(WpsParent, "WPS")}

LookupNext ==
    \/ \E token \in tokens, id \in {LookupStudent.id, AbsentId} :
          \/ get_student(token, id)
          \/ \E student \in LookupStudentUpdates : update_student(token, id, student)
          \/ delete_student(token, id)
          \/ get_student_report_card(token, id, "Term 1", "2025-2026")
    \/ \E token \in tokens, id \in {LookupClass.id, AbsentId} :
          \/ get_class(token, id)
          \/ \E class_data \in LookupClassUpdates : update_class(token, id, class_data)
          \/ delete_class(token, id)
          \/ get_class_report_cards(token, id, "Term 1", "2025-2026")
    \/ \E token \in tokens, id \in {FirstFreeId + 3, AbsentId} :
          delete_gradebook(token, id)
    \/ \E token \in tokens, id \in {JtechAdmin.id, AbsentId} :
          \/ \E role_data \in LookupRoles : update_user_role(token, id, role_data)
          \/ delete_user(token, id)
          \/ \E credentials \in LookupCredentials :
                reset_user_credentials(token, id, credentials)
    \/ Tick(MaxClock)

LookupSpec == LookupInit /\ [][LookupNext]_vars

\* the collection a by-id request looks its id up in
looked_up(op) ==
    IF op \in {"update_user_role", "delete_user", "reset_user_credentials"}
    THEN users ELSE addressed(op)

\* the request names an id that no document of the collection has
names_absent(r, coll) == \A doc \in Docs(coll) : doc.id # r.req.id

\* the request names an id that only documents of other schools have
names_foreign_only(r, coll) ==
    /\ names_foreign(r, coll)
    /\ \A doc \in Docs(coll) :
          doc.id = r.req.id => doc.school_code # session_school(r)

\* two responses to the same principal for the same operation and body, the
\* ids apart
same_request_but_id(r, q) ==
    /\ r.op = q.op
    /\ r.user = q.user
    /\ set_fields(r.req, [id |-> NoneId]) = set_fields(q.req, [id |-> NoneId])

\* a request on an id that exists nowhere is followed, the collections the
\* same, by the same request on an id that exists in another school only
absent_then_foreign(coll) ==
    /\ Len(coll) > 0
    /\ Len(resp'.user) > 0
    /\ resp'.user[1].role # SUPERUSER
    /\ same_request_but_id(resp, resp')
    /\ names_absent(resp, coll)
    /\ names_foreign_only(resp', coll)
    /\ stores' = stores /\ clock' = clock

\* C21: to a principal who is not a superuser, a by-id operation on an
\* entity that exists only in another school answers with the status and
\* the message of the same operation on an id that exists nowhere, for
\* students, classes, gradebook entries and users alike
C21_ForeignLooksAbsent ==
    [][\A coll \in {looked_up(resp'.op)} :
          absent_then_foreign(coll)
          => /\ resp'.status = resp.status
             /\ resp'.detail = resp.detail]_vars

(* ------------------- specification: parents who may write ------------- *)
\* a student of WPS whose parent is the account
child_of(n, first_name, parent) ==
    [id |-> FirstFreeId + n, school_code |-> "WPS", created_at |-> 0,
     updated_at |-> 0, first_name |-> first_name, last_name |-> "Lee",
     class_id |-> NoneId, parent_id |-> parent.id]

\* RoleUpdate bodies for a parent: the role kept, the permissions replaced
ParentGrants ==
    {[role |-> PARENT, permissions |-> << {"view_reports", "manage_students"} >>],
     [role |-> PARENT, permissions |-> << {"view_reports"} >>]}

ParentStudentUpdates ==
    [first_name : {"Bob"}, last_name : {"Lee"}, class_id : {NoneId},
     parent_id : {WpsParent.id, WpsParent2.id}]

\* each parent has a child in WPS; the administrator and a parent hold sessions
ParentWriteInit ==
    /\ schools = << JtechSchool, WpsSchool >>
    /\ users = << SuperUser, WpsAdmin, WpsTeacher, WpsParent, WpsParent2 >>
    /\ students = << child_of(0, "Ann", WpsParent), child_of(1, "Cy", WpsParent2) >>
    /\ classes = << >>
    /\ attendance = << >>
    /\ gradebook = << >>
    /\ social_skills = << >>
    /\ report_templates = << build_default_template("WPS") >>
    /\ clock = 0
    /\ nextId = FirstFreeId + 2
    /\ inflight = [conn \in Connections |-> Idle]
    /\ resp = Response("startup", 200, "", << >>, << >>, << >>)
    /\ tokens = {session(WpsAdmin, "WPS"), session(WpsParent, "WPS")}

ParentWriteNext ==
    \/ \E token \in tokens, role_data \in ParentGrants :
          update_user_role(token, WpsParent.id, role_data)
    \/ \E token \in tokens, id \in {FirstFreeId, FirstFreeId + 1},
          student \in ParentStudentUpdates : update_student(token, id, student)
    \/ \E token \in tokens, id \in {FirstFreeId, FirstFreeId + 1} :
          delete_student(token, id)

ParentWriteSpec == ParentWriteInit /\ [][ParentWriteNext]_vars

\* the student of the session school a request names, before the request
named_student == find_one(students, by_id(resp'.req.id, resp'.user[1]))

\* C22: update_student and delete_student issued by a principal with role
\* parent on a student whose parent_id is not the principal's id are
\* refused and leave the students as they were, whatever permissions the
\* parent's account holds
C22_ParentWritesOwnChildOnly ==
    [][(/\ resp'.op \in {"update_student", "delete_student"}
        /\ Len(resp'.user) > 0
        /\ resp'.user[1].role = PARENT
        /\ Len(named_student) > 0
        /\ named_student[1].parent_id # resp'.user[1].id)
       => /\ resp'.status >= 400
          /\ students' = students]_vars

(* ------------------- specification: what a mark may carry ------------- *)
\* AttendanceBase.status is a str: any string passes the request model
FreeStatuses == {"present", "holiday"}

\* the statuses the report cards count (attendance_summary)
COUNTED_STATUSES == {"present", "absent", "late", "excused"}

FreeMarks ==
    [student_id : {FirstFreeId}, class_id : {NoneId}, date : {"2026-01-05"},
     status : FreeStatuses]

\* AttendanceBulkCreate.records is a List[dict]: any dict passes the request
\* model, with or without the keys the handler reads
FreeRecords ==
    [student_id : {FirstFreeId}, status : FreeStatuses]
        \cup [student_id : {FirstFreeId}] \cup [status : {"present"}]

MarkInputInit ==
    /\ Provisioned
    /\ tokens = {session(WpsTeacher, "WPS"), session(WpsParent, "WPS")}

MarkInputNext ==
    \/ \E token \in tokens, att \in FreeMarks : mark_attendance(token, att)
    \/ \E token \in tokens, data \in BulkRequests(FreeRecords) :
          mark_bulk_attendance(token, data)

MarkInputSpec == MarkInputInit /\ [][MarkInputNext]_vars

\* the statuses a request asks to store
asked_statuses(r) ==
    IF r.op = "mark_attendance" THEN {r.req.status}
    ELSE {r.req.records[i].status :
              i \in {j \in DOMAIN r.req.records : "status" \in DOMAIN r.req.records[j]}}

\* C23: a mark_attendance or mark_bulk_attendance request of a permitted
\* caller carrying a status other than present, absent, late, excused is
\* answered with a validation error and writes nothing, so every stored
\* attendance record has one of the four statuses
C23_StatusValidated ==
    /\ [][(/\ resp'.op \in {"mark_attendance", "mark_bulk_attendance"}
           /\ resp'.status \notin {401, 403}
           /\ ~(asked_statuses(resp') \subseteq COUNTED_STATUSES))
          => /\ resp'.status = 422
             /\ attendance' = attendance]_vars
    /\ [](\A i \in DOMAIN attendance : attendance[i].status \in COUNTED_STATUSES)

\* C27: a mark_bulk_attendance request that fails leaves the attendance
\* collection as it was before the request, also when the failure comes at
\* a later element of records
C27_BulkAllOrNone ==
    [][(resp'.op = "mark_bulk_attendance" /\ resp'.status >= 400)
       => attendance' = attendance]_vars

(* --------------------------- report templates ------------------------- *)
\* GET /report-templates/{school_code}: the template of the school named in
\* the path, a default one being stored first when the school has none
get_report_template(token, school_code) ==
    LET auth == get_current_user(token)
        sc == upper(school_code)
        template == find_one(report_templates, [school_code |-> sc])
        school == find_one(schools, [school_code |-> sc])
    IN  IF auth.status # 200
        THEN Reject("get_report_template", auth, [id |-> school_code])
        ELSE IF Len(template) > 0
        THEN /\ resp' = Response("get_report_template", 200, "", template,
                                 auth.user, [id |-> school_code])
             /\ UNCHANGED <<stores, tokens, clock, nextId, inflight>>
        ELSE IF Len(school) = 0
        THEN /\ resp' = Response("get_report_template", 404, "School not found",
                                 << >>, auth.user, [id |-> school_code])
             /\ UNCHANGED <<stores, tokens, clock, nextId, inflight>>
        ELSE /\ report_templates' =
                    insert_one(report_templates, build_default_template(sc))
             /\ resp' = Response("get_report_template", 200, "",
                                 << build_default_template(sc) >>,
                                 auth.user, [id |-> school_code])
             /\ UNCHANGED <<schools, users, students, classes, attendance,
                            gradebook, social_skills, tokens, clock, nextId,
                            inflight>>

\* PUT /report-templates/{school_code}: the template of the school named in
\* the path takes the fields of the body, and is stored when there was none
update_report_template(token, school_code, template_data) ==
    LET auth == require_superuser(token)
        sc == upper(school_code)
        existing == find_one(report_templates, [school_code |-> sc])
        update_doc == set_fields(template_data, [school_code |-> sc])
        req == [id |-> school_code, data |-> template_data]
    IN  IF auth.status # 200 THEN Reject("update_report_template", auth, req)
        ELSE /\ report_templates' =
                    IF Len(existing) > 0
                    THEN update_one(report_templates, [school_code |-> sc], update_doc)
                    ELSE insert_one(report_templates, update_doc)
             /\ resp' = Response("update_report_template", 200, "",
                                 << IF Len(existing) > 0
                                    THEN set_fields(existing[1], update_doc)
                                    ELSE update_doc >>,
                                 auth.user, req)
             /\ UNCHANGED <<schools, users, students, classes, attendance,
                            gradebook, social_skills, tokens, clock, nextId,
                            inflight>>

(* ----------------- specification: the scale of a school --------------- *)
\* a grade_scale a template may be given (ReportTemplateGrade rows)
PASS_FAIL_SCALE ==
    << [min |-> 50, max |-> 100, grade |-> "P", description |-> "Pass"],
       [min |-> 0, max |-> 49, grade |-> "F", description |-> "Fail"] >>

\* ReportTemplateCreate bodies: of the fields, those the template keeps here
ScaleTemplates ==
    [school_code : {"WPS"}, grade_scale : {DEFAULT_GRADE_SCALE, PASS_FAIL_SCALE},
     use_weighted_grading : {FALSE}]

\* whole marks, as a plain score or as six equal components
ScaleLists ==
    UNION {{<< simple_subject("Art", m) >>,
            << weighted_subject("Art", NoneNum, m, m, m, m, m, m) >>,
            << simple_subject("Art", m),
               weighted_subject("Music", NoneNum, m, m, m, m, m, m) >>}
           : m \in {9200, 4500}}

ScaleEntries ==
    [student_id : {1}, class_id : {NoneId}, term : {"Term 1"},
     academic_year : {"2025-2026"}, subjects : ScaleLists]

\* the superuser sits in JTECH, a teacher in WPS; WPS has its default template
ScaleInit ==
    /\ Provisioned
    /\ tokens = {session(SuperUser, "JTECH"), session(WpsTeacher, "WPS")}

ScaleNext ==
    \/ \E token \in tokens, school_code \in {"WPS", "jtech"},
          template_data \in ScaleTemplates :
          update_report_template(token, school_code, template_data)
    \/ \E token \in tokens, entry \in ScaleEntries : save_gradebook(token, entry)

ScaleSpec == ScaleInit /\ [][ScaleNext]_vars

\* the grade a scale gives a score in hundredths ("" when no row holds it)
scale_grade(grade_scale, score) ==
    LET rounded == round(score, 100)
        hit == SelectSeq(grade_scale, LAMBDA g : g.min <= rounded /\ rounded <= g.max)
    IN  IF Len(hit) > 0 THEN hit[1].grade ELSE ""

\* C24: the grades save_gradebook stores are those of the grade_scale of the
\* session school's report template, for weighted and simple subjects and
\* for the overall score alike
C24_GradesFromSchoolScale ==
    [][(resp'.op = "save_gradebook" /\ resp'.status = 200)
       => \A template \in Docs(find(report_templates,
                                    [school_code |-> resp'.user[1].school_code])) :
          \A saved \in Docs(resp'.body) :
              /\ \A i \in DOMAIN saved.subjects :
                     saved.subjects[i].grade =
                         scale_grade(template.grade_scale, saved.subjects[i].score)
              /\ saved.overall_grade =
                     scale_grade(template.grade_scale, saved.overall_score)]_vars

(* ----------------- specification: templates of schools ---------------- *)
\* school codes as the paths of the template routes spell them
TemplateCodes == {"jtech", "WPS"}

\* SchoolCreate bodies: the code of a school that may be gone
TemplateSchools == [school_code : {"wps"}, is_active : {TRUE}]

\* JTECH has no template yet, WPS has its default one
TemplatesInit ==
    /\ Provisioned
    /\ tokens = {session(SuperUser, "JTECH"), session(WpsTeacher, "WPS")}

TemplatesNext ==
    \/ \E token \in tokens, school \in TemplateSchools : create_school(token, school)
    \/ \E token \in tokens, school_id \in {WpsSchool.id, FirstFreeId} :
          delete_school(token, school_id)
    \/ \E token \in tokens, school_code \in TemplateCodes :
          get_report_template(token, school_code)
    \/ \E token \in tokens, school_code \in TemplateCodes,
          template_data \in ScaleTemplates :
          update_report_template(token, school_code, template_data)

TemplatesSpec == TemplatesInit /\ [][TemplatesNext]_vars

\* the templates stored for a school code
templates_of(coll, school_code) == find(coll, [school_code |-> school_code])

\* no two report templates share a school_code
UniqueTemplates ==
    \A i, j \in DOMAIN report_templates :
        i # j => report_templates[i].school_code # report_templates[j].school_code

\* a completed get_report_template returns the one template of the school,
\* having stored a default one only when the school had none
GetCreatesOnce ==
    (resp'.op = "get_report_template" /\ resp'.status = 200) =>
        \A sc \in {upper(resp'.req.id)} :
            /\ Len(templates_of(report_templates', sc)) = 1
            /\ resp'.body = templates_of(report_templates', sc)
            /\ IF Len(templates_of(report_templates, sc)) > 0
               THEN report_templates' = report_templates
               ELSE report_templates' =
                        Append(report_templates, build_default_template(sc))

\* C25: after any sequence of create_school, delete_school,
\* get_report_template and update_report_template requests served one after
\* another there is at most one report template per school_code, and
\* get_report_template stores a default template exactly when the school has
\* none and otherwise returns the stored one
C25_OneTemplatePerSchool == []UniqueTemplates /\ [][GetCreatesOnce]_vars

(* ------------------- specification: student imports ------------------- *)
\* the lines a file holds after its header: a full row, a row without
\* last_name, an empty line
ImportLines ==
    {[first_name |-> "Ann", last_name |-> "Lee"], [first_name |-> "Bob"], << >>}

ImportFiles == UNION {[1..n -> ImportLines] : n \in 0..MaxLines}

ImportInit ==
    /\ Provisioned
    /\ tokens = {session(WpsAdmin, "WPS"), session(WpsTeacher, "WPS")}

ImportNext ==
    \/ \E token \in tokens, rows \in ImportFiles :
          import_students_csv(token, NoneId, "students.csv", rows)
    \/ \E token \in tokens :
          import_students_csv(token, NoneId, "students.xlsx", << >>)

ImportSpec == ImportInit /\ [][ImportNext]_vars

\* the positions of a file's lines that hold a row
data_lines(lines) == {i \in DOMAIN lines : DOMAIN lines[i] # {}}

\* a row with a non-empty first_name and last_name
complete(row) ==
    /\ get_field(row, "first_name", "") # ""
    /\ get_field(row, "last_name", "") # ""

\* the number a row at position i of the lines is reported under: its place
\* among the rows, the header counting as the first
row_number(lines, i) == 1 + Cardinality({j \in data_lines(lines) : j <= i})

\* the number of line i in the file, the header being line 1
line_number(lines, i) == 1 + i

\* the names of the students added by a step, in order
added_names ==
    [k \in 1..(Len(students') - Len(students)) |->
        << students'[Len(students) + k].first_name,
           students'[Len(students) + k].last_name >>]

\* the names of the complete rows of a file, in order
RECURSIVE complete_names(_)
complete_names(lines) ==
    IF Len(lines) = 0 THEN << >>
    ELSE (IF DOMAIN lines[1] # {} /\ complete(lines[1])
          THEN << << lines[1].first_name, lines[1].last_name >> >> ELSE << >>)
         \o complete_names(Tail(lines))

\* an import by an administrator of a .csv file handles every row: the
\* complete rows are inserted, the others reported under numbering(lines, i)
EveryRowHandled(numbering(_, _)) ==
    (/\ resp'.op = "import_students_csv"
     /\ resp'.status \notin {401, 403}
     /\ is_csv(resp'.req.filename))
    => \A lines \in {resp'.req.rows} :
       \A summary \in Docs(resp'.body) :
           /\ resp'.status = 200
           /\ summary.imported + Len(summary.errors)
                  = Cardinality(data_lines(lines))
           /\ SubSeq(students', 1, Len(students)) = students
           /\ added_names = complete_names(lines)
           /\ summary.imported = Len(added_names)
           /\ {summary.errors[k] : k \in DOMAIN summary.errors}
                  = {numbering(lines, i) :
                         i \in {j \in data_lines(lines) : ~complete(lines[j])}}

\* C26: import_students_csv handles every data row independently (inserted
\* plus errors equals the number of data rows, exactly the rows with a
\* non-empty first_name and last_name are inserted) and names each failing
\* row by its place among the data rows, the header counting as row 1
C26_RowsHandledByRowNumber == [][EveryRowHandled(row_number)]_vars

\* a file with a complete row, an empty line and a row without last_name
\* was imported: one student inserted, one error, reported as row 3
C26_Witness ==
    /\ resp.op = "import_students_csv" /\ resp.status = 200
    /\ Len(resp.req.rows) = 3
    /\ complete(resp.req.rows[1])
    /\ DOMAIN resp.req.rows[2] = {}
    /\ resp.req.rows[3] = [first_name |-> "Bob"]
    /\ resp.body[1].imported = 1
    /\ resp.body[1].errors = << 3 >>

\* C26 as stated: each error entry names the failing row by its line number
\* in the file, the header being line 1
C26_RowsHandledByLineNumber == [][EveryRowHandled(line_number)]_vars

(* -------------- specification: tokens older than a change ------------- *)
\* RoleUpdate bodies: a role with the permissions kept or replaced
StaleRoles ==
    {[role |-> ADMIN, permissions |-> << >>],
     [role |-> PARENT, permissions |-> << >>],
     [role |-> TEACHER, permissions |-> << {"view_reports"} >>],
     [role |-> PARENT, permissions |-> << {"generate_reports"} >>]}

\* the tokens were issued at login, before any change to the accounts
AdminToken == session(WpsAdmin, "WPS")

TeacherToken == session(WpsTeacher, "WPS")

StaleInit ==
    /\ Provisioned
    /\ tokens = {AdminToken, TeacherToken}

\* the administrator changes or deletes the teacher's account; the teacher
\* goes on making requests with the token held
StaleNext ==
    \/ \E role_data \in StaleRoles :
          update_user_role(AdminToken, WpsTeacher.id, role_data)
    \/ delete_user(AdminToken, WpsTeacher.id)
    \/ get_me(TeacherToken)
    \/ get_users(TeacherToken)
    \/ \E term \in {"Term 1", "Term 2"} :
          get_class_report_cards(TeacherToken, FirstFreeId, term, "2025-2026")
    \/ Tick(MaxClock)

StaleSpec == StaleInit /\ [][StaleNext]_vars

\* the teacher's account as stored
stored_teacher == find_one(users, [id |-> WpsTeacher.id])

\* C28: a request made with a token issued before the account changed is
\* decided on the stored account: 401 once the account is deleted, and
\* otherwise admitted or refused by the stored role and permissions, not by
\* the role claim of the token
C28_StoredAccountDecides ==
    [][resp'.op \in {"get_me", "get_users", "get_class_report_cards"}
       => IF Len(stored_teacher) = 0
          THEN resp'.status = 401 /\ resp'.detail = "User not found"
          ELSE /\ resp'.status # 401
               /\ resp'.user[1].role = stored_teacher[1].role
               /\ resp'.user[1].permissions = stored_teacher[1].permissions
               /\ resp'.op = "get_me" => resp'.status = 200
               /\ resp'.op = "get_users" =>
                      IF stored_teacher[1].role \in {SUPERUSER, ADMIN}
                      THEN resp'.status = 200 ELSE resp'.status = 403
               /\ resp'.op = "get_class_report_cards" =>
                      IF "generate_reports" \in stored_teacher[1].permissions
                      THEN resp'.status = 404 ELSE resp'.status = 403]_vars

\* the teacher, made an administrator since the token was issued, listed
\* the users with the token whose role claim still says teacher
C28_Witness ==
    /\ resp.op = "get_users" /\ resp.status = 200
    /\ TeacherToken.role = TEACHER
    /\ resp.user[1].id = WpsTeacher.id
    /\ resp.user[1].role = ADMIN
    /\ Len(resp.body) > 0

(* ---------------- specification: what a parent is shown --------------- *)
\* the two children of WPS, one of each parent
FamilyStudents == << child_of(0, "Ann", WpsParent), child_of(1, "Cy", WpsParent2) >>

FamilyIds == {FirstFreeId, FirstFreeId + 1}

\* an attendance record as mark_attendance stored it
family_mark(n, student_id) ==
    [id |-> FirstFreeId + n, school_code |-> "WPS", student_id |-> student_id,
     class_id |-> NoneId, date |-> "2026-01-05", status |-> "present",
     marked_by |-> WpsTeacher.id, created_at |-> 0]

family_entry(student_id) ==
    [student_id |-> student_id, class_id |-> NoneId, term |-> "Term 1",
     academic_year |-> "2025-2026",
     subjects |-> << simple_subject("Mathematics", 8950) >>]

\* a social skills document as save_social_skills stored it
family_skills(n, student_id) ==
    [id |-> FirstFreeId + n, student_id |-> student_id, term |-> "Term 1",
     academic_year |-> "2025-2026", school_code |-> "WPS",
     skills |-> [respect |-> "Good"], created_at |-> 0, updated_at |-> 0]

FamilyMarks ==
    [student_id : FamilyIds, class_id : {NoneId}, date : {"2026-01-05"},
     status : {"present", "absent"}]

\* the teacher has recorded attendance, grades and social skills of both
\* children; both parents and the teacher hold sessions
ParentReadInit ==
    /\ schools = << JtechSchool, WpsSchool >>
    /\ users = << SuperUser, WpsAdmin, WpsTeacher, WpsParent, WpsParent2 >>
    /\ students = FamilyStudents
    /\ classes = << >>
    /\ clock = 0
    /\ attendance = << family_mark(2, FirstFreeId), family_mark(3, FirstFreeId + 1) >>
    /\ gradebook =
           << set_fields(gradebook_doc(family_entry(FirstFreeId), WpsTeacher),
                         [id |-> FirstFreeId + 4, created_at |-> 0]),
              set_fields(gradebook_doc(family_entry(FirstFreeId + 1), WpsTeacher),
                         [id |-> FirstFreeId + 5, created_at |-> 0]) >>
    /\ social_skills = << family_skills(6, FirstFreeId),
                          family_skills(7, FirstFreeId + 1) >>
    /\ report_templates = << build_default_template("WPS") >>
    /\ nextId = FirstFreeId + 8
    /\ inflight = [conn \in Connections |-> Idle]
    /\ resp = Response("startup", 200, "", << >>, << >>, << >>)
    /\ tokens = {session(WpsTeacher, "WPS"), session(WpsParent, "WPS"),
                 session(WpsParent2, "WPS")}

ParentReadNext ==
    \/ \E token \in tokens, att \in FamilyMarks : mark_attendance(token, att)
    \/ \E token \in tokens, student_id \in FamilyIds \cup {NoneId} :
          get_attendance(token, student_id)
    \/ \E token \in tokens, student_id \in FamilyIds \cup {NoneId} :
          get_gradebook(token, student_id)
    \/ \E token \in tokens, student_id \in FamilyIds :
          get_social_skills(token, student_id, "Term 1", "2025-2026")

ParentReadSpec == ParentReadInit /\ [][ParentReadNext]_vars

\* C29: every record get_attendance, get_gradebook and get_social_skills
\* return to a principal with role parent is of a student of the session
\* school whose parent_id is the principal's id, whatever student_id is asked
C29_ParentReadsOwnChildren ==
    [][(/\ resp'.op \in {"get_attendance", "get_gradebook", "get_social_skills"}
        /\ resp'.status = 200
        /\ resp'.user[1].role = PARENT)
       => \A record \in Docs(resp'.body) :
              record.student_id \in child_ids(resp'.user[1])]_vars

(* ------------------- templates across the tenants --------------------- *)
\* C30: get_report_template by a principal who is not a superuser, for a
\* school_code other than the session school, returns no template and
\* stores none
C30_TemplateOfOwnSchoolOnly ==
    [][(/\ resp'.op = "get_report_template"
        /\ Len(resp'.user) > 0
        /\ resp'.user[1].role # SUPERUSER
        /\ upper(resp'.req.id) # resp'.user[1].school_code)
       => /\ resp'.status >= 400
          /\ Len(resp'.body) = 0
          /\ report_templates' = report_templates]_vars


====
